---- MODULE Spec2Model ----
(***************************************************************************)
(* The render cache of astrbot_plugin_neohelp (src/main.py) and the shared *)
(* browser of its renderer (src/renderer.py), as tasks on one asyncio      *)
(* event loop.  An action is the code a task runs between two suspensions: *)
(* an `await` on a free asyncio.Lock or Semaphore does not suspend, so the *)
(* code on both sides of it is one action, and so is a chain of calls that *)
(* all return from the cache.                                              *)
(*                                                                         *)
(* The operators below are functions on a record `s` holding the whole     *)
(* state; an action applies one of them to the current state St.           *)
(***************************************************************************)
EXTENDS Integers, Sequences, FiniteSets, TLC

VARIABLES
    disk_cache,     \* self._disk_cache
    image_cache,    \* self._image_cache: key -> bytes, 0 when the key is absent
    files,          \* the files <key>.png of self._cache_dir
    render_locks,   \* self._render_locks: key -> lock object, "none" when absent
    lockGen,        \* the generation a lock object created now belongs to
    held,           \* <<key, generation, task>>: the lock object is held by task
    terminated,     \* self._terminated
    cancelReq,      \* self._preheat_task.cancel() was called, not yet delivered
    valid_keys,     \* _preheat_cache's local valid_keys
    idx,            \* the sweep's position in SweepPlan
    sweepEnd,       \* how _preheat_cache ended
    pc,             \* per task: where it is suspended
    key,            \* per task: the key of its _get_cached_or_render call
    lk,             \* per task: the lock object (its generation) it took from the map
    ser,            \* per task: the bytes its render call produces
    pcT,            \* where terminate() is
    sem,            \* tasks holding a slot of renderer._semaphore
    block,          \* holder of renderer._lock
    browser,        \* renderer._browser
    pw,             \* renderer._playwright_instance is set
    renders,        \* history: key -> number of render_template calls made for it
    raised,         \* history: a render call raised or was cancelled
    wfail,          \* history: a cache file write raised OSError
    unlinkFailed,   \* history: keys whose unlink raised OSError in _cleanup_disk_cache
    result,         \* per request: what the command handler returned, and the
                    \* path of _get_cached_or_render that produced it
    late,           \* per request: the fast path served it after the sweep had ended
    sawCorrupt,     \* per task: the fast path of its call met a corrupt file
    template_name,  \* _cache_key: the template names of two calls
    data,           \* _cache_key: the payloads of the two calls
    cache_keys,     \* _cache_key: what the two calls returned, <<>> before
    host,           \* the host framework: its stars and its handler registry
    config,         \* the plugin's configuration
    call,           \* the collection made: by which class, with which skip_blacklist
    catalog,        \* what that collection returned or raised
    pipe,           \* a pipe-delimited command string and the text shown for it
    event,          \* the help message: its sender and its query
    reply,          \* what help_command computed for the message
    live,           \* history: the browsers launched and not yet closed
    ref,            \* history: the browser renderer._browser refers to, 0 for None
    got,            \* per caller: the browser _get_browser returned to it, 0 for none
    launched        \* history: the number of browsers launched so far

vars == <<disk_cache, image_cache, files, render_locks, lockGen, held, terminated,
          cancelReq, valid_keys, idx, sweepEnd, pc, key, lk, ser, pcT, sem, block,
          browser, pw, renders, raised, wfail, unlinkFailed, result, late,
          sawCorrupt, template_name, data, cache_keys, host, config, call, catalog,
          pipe, event, reply, live, ref, got, launched>>

key_vars == <<template_name, data, cache_keys>>
catalog_vars == <<host, config, call, catalog>>
menu_vars == <<pipe, event, reply>>
instance_vars == <<live, ref, got, launched>>

-----------------------------------------------------------------------------
(* Bounds: the number of help requests, and the number of render calls per *)
(* key that are told apart (the counter `renders` stops there).            *)
NumReq == 2
RenderCap == 2

(* renderer._semaphore = asyncio.Semaphore(3) *)
SemMax == 3

Sweep == 0
Req == 1..NumReq
Term == NumReq + 1
Tasks == {Sweep} \cup Req

(* The registry the menus are built from: one plugin P that has commands,  *)
(* one plugin Z that has none, an empty blacklist.  The main menu is the   *)
(* same for both visibility variants, and only P gets a pre-warmed         *)
(* sub-menu; `help Z` still renders Z's sub-menu.                          *)
Keys == {"main", "subP", "subZ"}
MainPlan == <<"main", "main">>
SubPlan == <<"subP", "subP">>
SweepPlan == MainPlan \o SubPlan

\* The menus the sweep pre-warms: the main menu and the sub-menu of every
\* plugin that has a command.
WarmKeys == {SweepPlan[i] : i \in 1..Len(SweepPlan)}

NoFile == [st |-> "absent", n |-> 0]
EmptyFile == [st |-> "empty", n |-> 0]
UnreadableFile == [st |-> "unreadable", n |-> 0]
Content(n) == [st |-> "ok", n |-> n]

InRender == {"sem", "blk", "launch", "page"}
InLocked == InRender

\* The state as a record.  Its last field is an input of the step, not a
\* variable: the stale files whose unlink raises OSError in
\* _cleanup_disk_cache, should the step run it.
St == [disk_cache |-> disk_cache, image_cache |-> image_cache, files |-> files,
       render_locks |-> render_locks, lockGen |-> lockGen, held |-> held,
       terminated |-> terminated, cancelReq |-> cancelReq,
       valid_keys |-> valid_keys, idx |-> idx, sweepEnd |-> sweepEnd, pc |-> pc,
       key |-> key, lk |-> lk, ser |-> ser, pcT |-> pcT, sem |-> sem,
       block |-> block, browser |-> browser, pw |-> pw, renders |-> renders,
       raised |-> raised, wfail |-> wfail, unlinkFailed |-> unlinkFailed,
       result |-> result, late |-> late,
       sawCorrupt |-> sawCorrupt, uf |-> {}]

AssignPlugin(s) ==
    /\ disk_cache' = s.disk_cache
    /\ image_cache' = s.image_cache
    /\ files' = s.files
    /\ render_locks' = s.render_locks
    /\ lockGen' = s.lockGen
    /\ held' = s.held
    /\ terminated' = s.terminated
    /\ cancelReq' = s.cancelReq
    /\ valid_keys' = s.valid_keys
    /\ idx' = s.idx
    /\ sweepEnd' = s.sweepEnd
    /\ pc' = s.pc
    /\ key' = s.key
    /\ lk' = s.lk
    /\ ser' = s.ser
    /\ pcT' = s.pcT
    /\ sem' = s.sem
    /\ block' = s.block
    /\ browser' = s.browser
    /\ pw' = s.pw
    /\ renders' = s.renders
    /\ raised' = s.raised
    /\ wfail' = s.wfail
    /\ unlinkFailed' = s.unlinkFailed
    /\ result' = s.result
    /\ late' = s.late
    /\ sawCorrupt' = s.sawCorrupt

Assign(s) == AssignPlugin(s) /\ UNCHANGED <<key_vars, catalog_vars, menu_vars, instance_vars>>

-----------------------------------------------------------------------------
(* The store *)

\* a hit on any file that exists, whatever it holds
StoreHitAnyFile(s, k) ==
    IF s.disk_cache THEN s.files[k].st \in {"ok", "empty"} ELSE s.image_cache[k] # 0

\* A verified hit: the file exists, reads and is not empty (disk), or the key
\* is in the map (memory).
StoreHit(s, k) ==
    IF s.disk_cache THEN s.files[k].st = "ok" ELSE s.image_cache[k] # 0

StoreBytes(s, k) ==
    IF s.disk_cache THEN s.files[k].n ELSE s.image_cache[k]

\* The lock-free fast path on a miss: a zero-byte file and a file whose read
\* raises OSError are unlinked.
FastPathMiss(s, t, k) ==
    IF s.disk_cache /\ s.files[k].st \in {"empty", "unreadable"}
    THEN [s EXCEPT !.files[k] = NoFile, !.sawCorrupt[t] = TRUE]
    ELSE s

\* a write that stores nothing
WriteCacheDrops(s, t, wr) == s

\* "写缓存": the outcomes of write_bytes are wr = "ok", or OSError before the
\* file was opened ("keep") or after it was truncated ("trunc").
WriteCache(s, t, wr) ==
    LET k == s.key[t] IN
    IF s.disk_cache
    THEN CASE wr = "ok" -> [s EXCEPT !.files[k] = Content(s.ser[t])]
           [] wr = "keep" -> [s EXCEPT !.wfail = TRUE]
           [] OTHER -> [s EXCEPT !.files[k] = EmptyFile, !.wfail = TRUE]
    ELSE [s EXCEPT !.image_cache[k] = s.ser[t]]

WriteOutcomes == IF disk_cache THEN {"ok", "keep", "trunc"} ELSE {"ok"}

-----------------------------------------------------------------------------
(* Leaving a call *)

ReleaseKeyLock(s, t) == [s EXCEPT !.held = {h \in @ : h[3] # t}]

ReleaseSem(s, t) == [s EXCEPT !.sem = @ \ {t}]

\* leaving `async with _lock` without releasing it
KeepBrowserLock(s, t) == s

ReleaseBrowserLock(s, t) == [s EXCEPT !.block = @ \ {t}]

\* a handler without the try/except
HandlerPropagates(out) ==
    IF out.kind = "image" THEN out ELSE [kind |-> "exception", n |-> 0, via |-> out.via]

\* _render_main_menu / _render_sub_menu: the image, or the plain-text fallback
\* when _get_cached_or_render raised.
HandlerResult(out) ==
    IF out.kind = "image" THEN out ELSE [kind |-> "text", n |-> 0, via |-> out.via]

Image(n, via) == [kind |-> "image", n |-> n, via |-> via]
Raise == [kind |-> "raise", n |-> 0, via |-> "render"]
Cancelled == [kind |-> "cancel", n |-> 0, via |-> "render"]

RECURSIVE OnReturn(_, _, _)
-----------------------------------------------------------------------------
(* renderer.render_template and renderer._get_browser *)

\* async with _lock: a connected browser is returned at once, otherwise the
\* task keeps _lock over the awaits that start playwright and launch chromium.
GetBrowser(s, t) ==
    IF s.block # {} THEN [s EXCEPT !.pc[t] = "blk"]
    ELSE IF s.browser = "connected" THEN [s EXCEPT !.pc[t] = "page"]
    ELSE [s EXCEPT !.block = {t}, !.pc[t] = "launch"]

\* a semaphore that admits every task
AcquireSemUnbounded(s, t) == GetBrowser([s EXCEPT !.sem = @ \cup {t}], t)

\* async with _semaphore
AcquireSem(s, t) ==
    IF Cardinality(s.sem) >= SemMax
    THEN [s EXCEPT !.pc[t] = "sem"]
    ELSE GetBrowser([s EXCEPT !.sem = @ \cup {t}], t)

\* img_bytes = await renderer.render_template(template, data)
RenderTemplate(s, t) ==
    LET k == s.key[t]
        n == IF s.renders[k] < RenderCap THEN s.renders[k] + 1 ELSE RenderCap
    IN AcquireSem([s EXCEPT !.renders[k] = n, !.ser[t] = n], t)

\* the render call returned: write the cache, leave `async with lock`, return
RenderReturns(s, t, wr) ==
    OnReturn(ReleaseKeyLock(ReleaseSem(WriteCache(s, t, wr), t), t), t, Image(s.ser[t], "render"))

\* a raise that leaves the per-key lock locked
RenderRaisesKeepsLock(s, t) ==
    LET s1 == [s EXCEPT !.raised = TRUE] IN
    OnReturn(ReleaseBrowserLock(ReleaseSem(s1, t), t), t, Raise)

\* the render call raised: the async with blocks release what the task holds
RenderRaises(s, t) ==
    LET s1 == [s EXCEPT !.raised = TRUE] IN
    OnReturn(ReleaseKeyLock(ReleaseBrowserLock(ReleaseSem(s1, t), t), t), t, Raise)

-----------------------------------------------------------------------------
(* _get_cached_or_render *)

\* the locked section without the double check
LockedNoRecheck(s, t) == RenderTemplate(s, t)

\* inside `async with lock`: the double check, then the render
Locked(s, t) ==
    LET k == s.key[t] IN
    IF StoreHit(s, k)
    THEN OnReturn(ReleaseKeyLock(s, t), t, Image(StoreBytes(s, k), "locked"))
    ELSE RenderTemplate(s, t)

LockFree(s, k, e) == ~ \E h \in s.held : h[1] = k /\ h[2] = e

\* lock = self._render_locks.setdefault(key, asyncio.Lock()); async with lock
AcquireKeyLock(s, t) ==
    LET k == s.key[t]
        e == IF s.render_locks[k] = "none" THEN s.lockGen ELSE s.render_locks[k]
        s1 == [s EXCEPT !.render_locks[k] = e, !.lk[t] = e]
    IN IF LockFree(s, k, e)
       THEN Locked([s1 EXCEPT !.held = @ \cup {<<k, e, t>>}], t)
       ELSE [s1 EXCEPT !.pc[t] = "lockwait"]

GetCachedOrRender(s, t, k) ==
    LET s0 == [s EXCEPT !.key[t] = k] IN
    IF StoreHit(s0, k)
    THEN OnReturn(s0, t, Image(StoreBytes(s0, k), "fast"))
    ELSE AcquireKeyLock(FastPathMiss(s0, t, k), t)

-----------------------------------------------------------------------------
(* The end of the sweep *)

\* a sweep end that evicts nothing
EvictNothing(s, uf) == [s EXCEPT !.lockGen = "g1"]

\* _cleanup_disk_cache (disk) or the dict comprehension (memory), then the
\* lock map keeps the valid keys only; uf: the keys whose unlink raises.
Evict(s, uf) ==
    LET gone == Keys \ s.valid_keys
        s1 == IF s.disk_cache
              THEN [s EXCEPT !.files = [k \in Keys |->
                          IF k \in gone /\ k \notin uf THEN NoFile ELSE @[k]],
                             !.unlinkFailed = {k \in gone \cap uf : s.files[k].st # "absent"}]
              ELSE [s EXCEPT !.image_cache = [k \in Keys |->
                          IF k \in gone THEN 0 ELSE @[k]]]
    IN [s1 EXCEPT !.render_locks = [k \in Keys |-> IF k \in gone THEN "none" ELSE @[k]],
                  !.lockGen = "g1"]

\* _preheat_cache is left: its locals go out of scope
SweepEnds(s, how) ==
    [s EXCEPT !.pc[Sweep] = "done", !.sweepEnd = how,
              !.idx = 1, !.valid_keys = {}, !.key[Sweep] = "main"]

SweepFinish(s, uf) ==
    IF s.terminated THEN SweepEnds(s, "aborted")
    ELSE [Evict(s, uf) EXCEPT !.pc[Sweep] = "done", !.sweepEnd = "completed"]

-----------------------------------------------------------------------------
(* _preheat_cache between two suspensions *)

\* _preheat_main_menu / _preheat_sub_menus for the menu the sweep is at
SweepMenu(s) ==
    LET k == SweepPlan[s.idx] IN
    IF s.terminated
    THEN SweepEnds(s, "aborted")
    ELSE GetCachedOrRender([s EXCEPT !.valid_keys = @ \cup {k}], Sweep, k)

\* a call of the sweep returned or raised: the next menu, the sleep between
\* the main menus and the sub-menus, the eviction, or `except Exception`
SweepAdvance(s, out) ==
    CASE out.kind = "image" ->
           LET i == s.idx + 1
               s1 == [s EXCEPT !.idx = i]
           IN IF i > Len(SweepPlan) THEN SweepFinish(s1, s1.uf)
              ELSE IF i = Len(MainPlan) + 1 THEN [s1 EXCEPT !.pc[Sweep] = "sleep2"]
              ELSE SweepMenu(s1)
      [] out.kind = "raise" -> SweepEnds(s, "failed")
      [] OTHER -> SweepEnds(s, "cancelled")

\* _get_cached_or_render returns or raises to its caller
OnReturn(s, t, out) ==
    LET s1 == [s EXCEPT !.lk[t] = "g0", !.ser[t] = 0, !.sawCorrupt[t] = FALSE] IN
    IF t = Sweep
    THEN SweepAdvance(s1, out)
    ELSE [s1 EXCEPT !.pc[t] = "done", !.result[t] = HandlerResult(out)]

-----------------------------------------------------------------------------
(* renderer.cleanup and terminate *)

CleanupLocked(s) ==
    IF s.browser # "none" \/ s.pw
    THEN [s EXCEPT !.block = {Term}, !.pcT = "closing"]
    ELSE [s EXCEPT !.pcT = "done"]

Cleanup(s) ==
    IF s.block # {} THEN [s EXCEPT !.pcT = "cleanupwait"] ELSE CleanupLocked(s)

\* terminate after the sweep task is awaited
TerminateRest(s) ==
    Cleanup(IF s.disk_cache THEN s ELSE [s EXCEPT !.image_cache = [k \in Keys |-> 0]])

\* terminate that cancels the sweep and does not await it
TerminateNoAwait(s) ==
    LET s1 == [s EXCEPT !.terminated = TRUE] IN
    TerminateRest(IF s.pc[Sweep] \notin {"none", "done"}
                  THEN [s1 EXCEPT !.cancelReq = TRUE] ELSE s1)

TerminateStart(s) ==
    LET s1 == [s EXCEPT !.terminated = TRUE] IN
    IF s.pc[Sweep] \notin {"none", "done"}
    THEN [s1 EXCEPT !.cancelReq = TRUE, !.pcT = "await"]
    ELSE TerminateRest(s1)

-----------------------------------------------------------------------------
(* Cancellation of the sweep *)

\* CancelledError thrown into the sweep at its suspension point
SweepUnwind(s, pwAfter) ==
    LET t == Sweep
        s1 == IF s.pc[t] = "launch" THEN [s EXCEPT !.pw = pwAfter] ELSE s
        s2 == IF s.pc[t] \in InRender THEN [s1 EXCEPT !.raised = TRUE] ELSE s1
    IN [OnReturn(ReleaseKeyLock(ReleaseBrowserLock(ReleaseSem(s2, t), t), t), t, Cancelled)
          EXCEPT !.cancelReq = FALSE]

-----------------------------------------------------------------------------
(* Actions *)

Runs(t) == t = Sweep => ~cancelReq

\* help_command -> _render_main_menu / _render_sub_menu -> _get_cached_or_render.
\* Each request is a task of its own; requests arrive in the order of their
\* numbers, and none is dispatched to a terminated plugin.
HelpCommand(t, k) ==
    /\ pc[t] = "idle"
    /\ t = 1 \/ pc[t - 1] # "idle"
    /\ ~terminated
    /\ LET hitAfterSweep == pc[Sweep] = "done" /\ StoreHit(St, k)
       IN Assign(GetCachedOrRender([St EXCEPT !.late[t] = hitAfterSweep], t, k))

\* A request that enters _get_cached_or_render while no request has returned
\* from it: the calls made this way all overlap.
ConcurrentCall(t, k) ==
    /\ \A u \in Req : pc[u] # "done"
    /\ HelpCommand(t, k)

\* initialize(): asyncio.create_task(self._preheat_cache())
Initialize ==
    /\ pc[Sweep] = "none"
    /\ ~terminated
    /\ Assign([St EXCEPT !.pc[Sweep] = "sleep1"])

\* The unlink failures a step of task t can meet: those of the stale files,
\* when the sweep runs _cleanup_disk_cache.
UnlinkOutcomes(t) ==
    IF t = Sweep /\ disk_cache THEN SUBSET (Keys \ WarmKeys) ELSE {{}}

\* asyncio.sleep(1) or asyncio.sleep(2) is over
SweepWakes(uf) ==
    /\ pc[Sweep] \in {"sleep1", "sleep2"}
    /\ ~cancelReq
    /\ Assign(SweepMenu([St EXCEPT !.uf = uf]))

SweepCancelled(pwAfter) ==
    /\ cancelReq
    /\ pc[Sweep] \notin {"none", "done"}
    /\ Assign(SweepUnwind(St, pwAfter))

KeyLockAcquired(t, uf) ==
    /\ pc[t] = "lockwait"
    /\ Runs(t)
    /\ LockFree(St, key[t], lk[t])
    /\ Assign(Locked([St EXCEPT !.held = @ \cup {<<key[t], lk[t], t>>}, !.uf = uf], t))

\* Not a disjunct of Next: with the requests and keys modelled, no more than
\* SemMax tasks are inside render_template at once, so none waits for a slot.
SemAcquired(t) ==
    /\ pc[t] = "sem"
    /\ Runs(t)
    /\ Cardinality(sem) < SemMax
    /\ Assign(GetBrowser([St EXCEPT !.sem = @ \cup {t}], t))

BrowserLockAcquired(t) ==
    /\ pc[t] = "blk"
    /\ Runs(t)
    /\ block = {}
    /\ Assign(GetBrowser(St, t))

\* async_playwright().start() and chromium.launch() returned
LaunchDone(t) ==
    /\ pc[t] = "launch"
    /\ Runs(t)
    /\ Assign(ReleaseBrowserLock([St EXCEPT !.pw = TRUE, !.browser = "connected",
                                            !.pc[t] = "page"], t))

\* start() raised (pwAfter = FALSE) or launch() raised (pwAfter = TRUE)
LaunchFails(t, pwAfter) ==
    /\ pc[t] = "launch"
    /\ Runs(t)
    /\ Assign(RenderRaises([St EXCEPT !.pw = pwAfter], t))

\* new_page .. screenshot .. page.close() went through
PageDone(t, wr, uf) ==
    /\ pc[t] = "page"
    /\ Runs(t)
    /\ Assign(RenderReturns([St EXCEPT !.uf = uf], t, wr))

\* one of the page calls raised (a timeout, a closed browser)
PageFails(t) ==
    /\ pc[t] = "page"
    /\ Runs(t)
    /\ Assign(RenderRaises(St, t))

-----------------------------------------------------------------------------
(* render_template called directly, by more tasks than the semaphore admits *)

NumCallers == 4

Callers == 1..NumCallers

\* the `async with _semaphore` block is left: by return, raise or cancellation
LeaveRenderTemplate(s, t) ==
    [ReleaseBrowserLock(ReleaseSem(s, t), t) EXCEPT !.pc[t] = "done"]

\* a task calls render_template, for the first time or again: the html is
\* rendered and written, then `async with _semaphore`
RenderTemplateCalled(t) ==
    /\ pc[t] \in {"idle", "done"}
    /\ Assign(AcquireSem(St, t))

\* start() or launch() raised in _get_browser
LaunchRaises(t, pwAfter) ==
    /\ pc[t] = "launch"
    /\ Assign(LeaveRenderTemplate([St EXCEPT !.pw = pwAfter, !.raised = TRUE], t))

\* `return screenshot`, after page.close()
ScreenshotReturns(t) ==
    /\ pc[t] = "page"
    /\ Assign(LeaveRenderTemplate(St, t))

\* new_page or one of the page calls raised
PageRaises(t) ==
    /\ pc[t] = "page"
    /\ Assign(LeaveRenderTemplate([St EXCEPT !.raised = TRUE], t))

\* the task is cancelled where it is suspended: while it waits for a slot,
\* for _lock, for the launch or for the page
CallCancelled(t, pwAfter) ==
    /\ pc[t] \in InRender
    /\ pc[t] # "launch" => pwAfter = pw
    /\ Assign(LeaveRenderTemplate([St EXCEPT !.pw = pwAfter, !.raised = TRUE], t))

-----------------------------------------------------------------------------
(* _get_browser and cleanup step by step, with a browser that can lose its  *)
(* connection.  The browsers launched are numbered; closing one takes it    *)
(* out of `live`, whether close() returns or raises an Exception, which     *)
(* both functions suppress.  A launch that is cancelled or raises has       *)
(* launched nothing.                                                        *)

MaxLaunch == 3

\* the holder of _lock while cleanup() is in its `async with _lock`
CleanupTask == 0

\* the variables _get_browser and cleanup leave alone
cache_vars == <<disk_cache, image_cache, files, render_locks, lockGen, held, terminated,
                cancelReq, valid_keys, idx, sweepEnd, key, lk, ser, sem, renders,
                wfail, unlinkFailed, result, late, sawCorrupt>>

idle_vars == <<cache_vars, key_vars, catalog_vars, menu_vars>>

\* a lock that is never seen locked
BrowserLockIgnored == TRUE

\* _lock is free
BrowserLockFree == block = {}

\* _get_browser from `async with _lock` entered to its first await: a
\* connected browser is returned at once
GetBrowserLocked(t) ==
    IF browser = "connected"
    THEN /\ pc' = [pc EXCEPT ![t] = "done"]
         /\ got' = [got EXCEPT ![t] = ref]
         /\ block' = block \ {t}
    ELSE /\ pc' = [pc EXCEPT ![t] = IF browser = "disconnected" THEN "close"
                                    ELSE IF pw THEN "stop" ELSE "start"]
         /\ got' = [got EXCEPT ![t] = 0]
         /\ block' = {t}

\* a task calls _get_browser, for the first time or again
GetBrowserCalled(t) ==
    /\ pc[t] \in {"idle", "done"}
    /\ IF BrowserLockFree THEN GetBrowserLocked(t)
       ELSE /\ pc' = [pc EXCEPT ![t] = "blk"]
            /\ got' = [got EXCEPT ![t] = 0]
            /\ UNCHANGED block
    /\ UNCHANGED <<browser, pw, pcT, raised, live, ref, launched, idle_vars>>

GetBrowserLockAcquired(t) ==
    /\ pc[t] = "blk"
    /\ BrowserLockFree
    /\ GetBrowserLocked(t)
    /\ UNCHANGED <<browser, pw, pcT, raised, live, ref, launched, idle_vars>>

\* `await _browser.close()` of the disconnected browser is over; _browser = None
OldBrowserClosed(t) ==
    /\ pc[t] = "close"
    /\ live' = live \ {ref}
    /\ ref' = 0
    /\ browser' = "none"
    /\ pc' = [pc EXCEPT ![t] = IF pw THEN "stop" ELSE "start"]
    /\ UNCHANGED <<block, pw, pcT, raised, got, launched, idle_vars>>

\* `await _playwright_instance.stop()` is over; _playwright_instance = None
OldPlaywrightStopped(t) ==
    /\ pc[t] = "stop"
    /\ pw' = FALSE
    /\ pc' = [pc EXCEPT ![t] = "start"]
    /\ UNCHANGED <<block, browser, pcT, raised, live, ref, got, launched, idle_vars>>

\* async_playwright().start() returned
PlaywrightStarted(t) ==
    /\ pc[t] = "start"
    /\ pw' = TRUE
    /\ pc' = [pc EXCEPT ![t] = "launch"]
    /\ UNCHANGED <<block, browser, pcT, raised, live, ref, got, launched, idle_vars>>

\* chromium.launch() returned a new browser
BrowserLaunched(t) ==
    /\ pc[t] = "launch"
    /\ launched < MaxLaunch
    /\ launched' = launched + 1
    /\ live' = live \cup {launched + 1}
    /\ ref' = launched + 1
    /\ browser' = "connected"
    /\ got' = [got EXCEPT ![t] = launched + 1]
    /\ pc' = [pc EXCEPT ![t] = "done"]
    /\ block' = block \ {t}
    /\ UNCHANGED <<pw, pcT, raised, idle_vars>>

\* start() or launch() raised, or the task was cancelled at one of the awaits
\* of _get_browser or while it waited for _lock: _get_browser is left with
\* the globals as they are
GetBrowserRaises(t) ==
    /\ pc[t] \in {"blk", "close", "stop", "start", "launch"}
    /\ pc' = [pc EXCEPT ![t] = "done"]
    /\ block' = block \ {t}
    /\ raised' = TRUE
    /\ UNCHANGED <<browser, pw, pcT, live, ref, got, launched, idle_vars>>

\* the browser process dies or its connection drops
BrowserDisconnects ==
    /\ browser = "connected"
    /\ browser' = "disconnected"
    /\ UNCHANGED <<pc, block, pw, pcT, raised, live, ref, got, launched, idle_vars>>

\* cleanup() from `async with _lock` entered to its first await
CleanupEntered ==
    IF browser # "none" THEN pcT' = "close" /\ block' = {CleanupTask}
    ELSE IF pw THEN pcT' = "stop" /\ block' = {CleanupTask}
    ELSE pcT' = "done" /\ block' = block

CleanupCalled ==
    /\ pcT = "none"
    /\ IF BrowserLockFree THEN CleanupEntered
       ELSE pcT' = "cleanupwait" /\ UNCHANGED block
    /\ UNCHANGED <<pc, browser, pw, raised, live, ref, got, launched, idle_vars>>

CleanupGetsLock ==
    /\ pcT = "cleanupwait"
    /\ BrowserLockFree
    /\ CleanupEntered
    /\ UNCHANGED <<pc, browser, pw, raised, live, ref, got, launched, idle_vars>>

\* `await _browser.close()` of cleanup is over; _browser = None
CleanupBrowserClosed ==
    /\ pcT = "close"
    /\ live' = live \ {ref}
    /\ ref' = 0
    /\ browser' = "none"
    /\ IF pw THEN pcT' = "stop" /\ UNCHANGED block
       ELSE pcT' = "done" /\ block' = {}
    /\ UNCHANGED <<pc, pw, raised, got, launched, idle_vars>>

\* `await _playwright_instance.stop()` of cleanup is over
CleanupPlaywrightStopped ==
    /\ pcT = "stop"
    /\ pw' = FALSE
    /\ pcT' = "done"
    /\ block' = {}
    /\ UNCHANGED <<pc, browser, raised, live, ref, got, launched, idle_vars>>

Terminate ==
    /\ pcT = "none"
    /\ Assign(TerminateStart(St))

\* await self._preheat_task returns once the task is done
TerminateResume ==
    /\ pcT = "await"
    /\ pc[Sweep] = "done"
    /\ Assign(TerminateRest(St))

CleanupLockAcquired ==
    /\ pcT = "cleanupwait"
    /\ block = {}
    /\ Assign(CleanupLocked(St))

\* _browser.close() and _playwright_instance.stop() returned
CleanupDone ==
    /\ pcT = "closing"
    /\ Assign(ReleaseBrowserLock([St EXCEPT !.browser = "none", !.pw = FALSE,
                                            !.pcT = "done"], Term))

-----------------------------------------------------------------------------
(* _cache_key *)

(* A payload value is a string, a list, or a mapping: a sequence of         *)
(* <<key, value>> entries in insertion order, with distinct keys.  A key is *)
(* a number, and its name is that number's decimal text, so that names      *)
(* sort as the numbers do.  NumKeys bounds the entries of a nested mapping. *)
NumKeys == 2

Str(x) == [t |-> "str", v |-> x]
Lst(xs) == [t |-> "list", v |-> xs]
Map(es) == [t |-> "map", v |-> es]

\* the template names the plugin passes, as the text before ".html" and ".html"
MainMenu == <<"main_menu", ".html">>
ExpandedMenu == <<"expanded_menu", ".html">>
SubMenu == <<"sub_menu", ".html">>
TemplateNames == {MainMenu, ExpandedMenu, SubMenu}

RECURSIVE SortItems(_)
\* sort_keys=True: the entries of a mapping by key
SortItems(es) ==
    IF Len(es) = 0 THEN <<>>
    ELSE LET i == CHOOSE i \in 1..Len(es) : \A j \in 1..Len(es) : es[i][1] <= es[j][1]
             rest == [j \in 1..(Len(es) - 1) |-> IF j < i THEN es[j] ELSE es[j + 1]]
         IN <<es[i]>> \o SortItems(rest)

RECURSIVE Encode(_, _)
RECURSIVE EncodeList(_, _)
RECURSIVE EncodeItems(_, _)
\* the JSON text of a value, as a sequence of tokens
Encode(x, sort_keys) ==
    CASE x.t = "str" -> <<"\"", x.v, "\"">>
      [] x.t = "list" -> <<"[">> \o EncodeList(x.v, sort_keys) \o <<"]">>
      [] OTHER -> <<"{">> \o EncodeItems(IF sort_keys THEN SortItems(x.v) ELSE x.v,
                                         sort_keys) \o <<"}">>

EncodeList(xs, sort_keys) ==
    IF Len(xs) = 0 THEN <<>>
    ELSE Encode(Head(xs), sort_keys)
         \o (IF Len(xs) > 1 THEN <<",">> ELSE <<>>)
         \o EncodeList(Tail(xs), sort_keys)

EncodeItems(es, sort_keys) ==
    IF Len(es) = 0 THEN <<>>
    ELSE <<"\"", ToString(Head(es)[1]), "\"", ":">> \o Encode(Head(es)[2], sort_keys)
         \o (IF Len(es) > 1 THEN <<",">> ELSE <<>>)
         \o EncodeItems(Tail(es), sort_keys)

\* json.dumps that keeps the insertion order of mapping keys
DumpsInsertionOrder(x) == Encode(x, FALSE)

\* json.dumps(data, sort_keys=True, ensure_ascii=False, default=str)
Dumps(x) == Encode(x, TRUE)

\* template_name.replace(".html", ""): every occurrence is removed
ReplaceHtml(name) ==
    LET Other(x) == x # ".html" IN SelectSeq(name, Other)

\* f"{name}_{h}": h is the MD5 digest of the JSON text, taken as free of
\* collisions (the digest stands for the text it was computed from); its
\* width is fixed, so the key determines name and digest.
CacheKey(tn, d) == [name |-> ReplaceHtml(tn), md5 |-> Dumps(d)]

\* Payloads: a mapping of key 1 to a nested mapping, or to a list holding a
\* nested mapping, and of key 2 to a string, in both insertion orders.
Scalars == {Str("x"), Str("y")}
Orders(n) == {f \in [1..n -> 1..n] : \A i \in 1..n : \E j \in 1..n : f[j] = i}
Inner ==
    {Map([i \in 1..NumKeys |-> <<o[i], IF o[i] = 1 THEN x ELSE Str("x")>>]) :
        o \in Orders(NumKeys), x \in Scalars}
Nested == Inner \cup {Lst(<<m>>) : m \in Inner}
Payloads ==
    {Map(<<<<1, n>>, <<2, x>>>>) : n \in Nested, x \in {Str("z")}}
    \cup {Map(<<<<2, x>>, <<1, n>>>>) : n \in Nested, x \in {Str("z")}}

\* Two calls of _cache_key, on the pairs drawn by InitKey
ComputeKeys ==
    /\ Len(cache_keys) = 0
    /\ cache_keys' = <<CacheKey(template_name[1], data[1]),
                       CacheKey(template_name[2], data[2])>>
    /\ UNCHANGED <<template_name, data, catalog_vars, menu_vars, instance_vars>>
    /\ AssignPlugin(St)

-----------------------------------------------------------------------------
(* Text *)

(* A string is the sequence of its symbols.  A symbol is one character, or  *)
(* one of the three fixed texts "custom_", "astrbot_plugin_neohelp" and     *)
(* "--admin", which no string of the model spells out of smaller symbols.   *)
(* No symbol is the beginning of another one, so two strings are equal when *)
(* their sequences are, and Python's order of strings is the lexicographic  *)
(* order of the sequences under the code point of each symbol's first       *)
(* character.                                                               *)
CodePoint(c) ==
    CASE c = " " -> 32 [] c = "!" -> 33 [] c = "--admin" -> 45
      [] c = "0" -> 48 [] c = "1" -> 49 [] c = "5" -> 53 [] c = "9" -> 57
      [] c = "P" -> 80 [] c = "astrbot_plugin_neohelp" -> 97 [] c = "custom_" -> 99
      [] c = "g" -> 103 [] c = "h" -> 104 [] c = "p" -> 112 [] c = "q" -> 113
      [] c = "x" -> 120 [] c = "y" -> 121 [] c = "z" -> 122 [] c = "|" -> 124

\* a < b on strings
StrLess(a, b) ==
    \E i \in 1..(Len(a) + 1) :
        /\ \A j \in 1..(i - 1) : j <= Len(b) /\ a[j] = b[j]
        /\ i <= Len(b)
        /\ i <= Len(a) => CodePoint(a[i]) < CodePoint(b[i])

\* str.lower()
Lower(a) == [i \in 1..Len(a) |-> IF a[i] = "P" THEN "p" ELSE a[i]]

RECURSIVE Strip(_)
\* str.strip(): the blanks at both ends go
Strip(a) ==
    IF Len(a) = 0 THEN a
    ELSE IF a[1] = " " THEN Strip(Tail(a))
    ELSE IF a[Len(a)] = " " THEN Strip(SubSeq(a, 1, Len(a) - 1))
    ELSE a

RECURSIVE Split(_, _)
\* str.split(sep): the texts between the occurrences of the symbol sep
Split(a, sep) ==
    IF \A i \in 1..Len(a) : a[i] # sep THEN <<a>>
    ELSE LET i == CHOOSE i \in 1..Len(a) : a[i] = sep /\ \A j \in 1..(i - 1) : a[j] # sep
         IN <<SubSeq(a, 1, i - 1)>> \o Split(SubSeq(a, i + 1, Len(a)), sep)

\* str.split(): the words between runs of blanks
Words(a) ==
    LET NotEmpty(w) == Len(w) > 0 IN SelectSeq(Split(a, " "), NotEmpty)

RECURSIVE Join(_)
\* " ".join(parts)
Join(parts) ==
    IF Len(parts) = 0 THEN <<>>
    ELSE IF Len(parts) = 1 THEN parts[1]
    ELSE parts[1] \o <<" ">> \o Join(Tail(parts))

\* sub in a
Contains(sub, a) ==
    \E i \in 0..(Len(a) - Len(sub)) : SubSeq(a, i + 1, i + Len(sub)) = sub

Digit(c) == CodePoint(c) - 48
IsDigit(c) == CodePoint(c) \in 48..57

RECURSIVE Decimal(_)
Decimal(a) == IF Len(a) = 0 THEN 0 ELSE 10 * Decimal(SubSeq(a, 1, Len(a) - 1)) + Digit(a[Len(a)])

-----------------------------------------------------------------------------
(* The records of the catalogue *)

\* an optional value: None, or the value
None == <<>>
Some(v) == <<v>>

\* an `order` as the configuration gives it: int, str or null
Num(n) == [t |-> "int", v |-> n]
Null == [t |-> "none", v |-> 0]

\* PLUGIN_NAME
PLUGIN_NAME == <<"astrbot_plugin_neohelp">>

\* CommandInfo, without aliases and usage, which are copied and never read
CommandInfo(name, description, admin_only, custom_prefix) ==
    [name |-> name, description |-> description, admin_only |-> admin_only,
     custom_prefix |-> custom_prefix]

\* PluginInfo and its __post_init__
PluginInfo(name, display_name, description, icon_url, order) ==
    [name |-> name,
     display_name |-> IF Len(display_name) = 0 THEN name ELSE display_name,
     description |-> description, commands |-> <<>>, icon_url |-> icon_url,
     order |-> order]

\* the three kinds of filter of a handler
CommandFilter(command_name, handler_md) ==
    [kind |-> "command", name |-> command_name, handler_md |-> handler_md,
     sub_command_filters |-> <<>>, admin |-> FALSE]
CommandGroupFilter(group_name, sub_command_filters) ==
    [kind |-> "group", name |-> group_name, handler_md |-> 0,
     sub_command_filters |-> sub_command_filters, admin |-> FALSE]
PermissionTypeFilter(admin) ==
    [kind |-> "permission", name |-> <<>>, handler_md |-> 0,
     sub_command_filters |-> <<>>, admin |-> admin]

\* the dict `plugins`: the PluginInfo in insertion order, one per name
Names(plugins) == {plugins[i].name : i \in 1..Len(plugins)}
At(plugins, name) == CHOOSE i \in 1..Len(plugins) : plugins[i].name = name
Put(plugins, p) ==
    IF p.name \in Names(plugins)
    THEN [plugins EXCEPT ![At(plugins, p.name)] = p]
    ELSE Append(plugins, p)

-----------------------------------------------------------------------------
(* The host: its stars and its handler registry *)

ModulePaths == {"m0", "m1", "m2", "m3"}

\* A star; `activated` is "raises" when reading the attribute throws, and
\* logo tells whether <root_dir_name>/logo.png can be read.
Star(name, module_path, activated, reserved, logo) ==
    [name |-> name, module_path |-> module_path, activated |-> activated,
     reserved |-> reserved, logo |-> logo]

\* The handler objects, by identity.  In module m1: handler 1 carries the
\* group g, which nests the group h, which holds the command x of handler 3;
\* handler 2 carries the group h on its own; handlers 4 and 5 carry a plain
\* command x each, handler 5 with an admin permission; handler 7 carries
\* another group named h, which no group holds and whose command y has no
\* handler of its own.  In module m3: handler 6 carries a plain command x;
\* handler 8 carries a plain command y and, besides, a group g that holds
\* the command x of handler 6.
StarHandlerMetadata(handler_module_path, desc, event_filters) ==
    [handler_module_path |-> handler_module_path, desc |-> desc,
     event_filters |-> event_filters]

ChildGroup == CommandGroupFilter(<<"h">>, <<CommandFilter(<<"x">>, 3)>>)
ParentGroup == CommandGroupFilter(<<"g">>, <<ChildGroup>>)

OtherGroup == CommandGroupFilter(<<"h">>, <<CommandFilter(<<"y">>, 0)>>)
SideGroup == CommandGroupFilter(<<"g">>, <<CommandFilter(<<"x">>, 6)>>)

BaseHandlers ==
    << StarHandlerMetadata("m1", <<"g">>, <<ParentGroup>>),
       StarHandlerMetadata("m1", <<"h">>, <<ChildGroup>>),
       StarHandlerMetadata("m1", <<"z">>, <<CommandFilter(<<"x">>, 3)>>),
       StarHandlerMetadata("m1", <<"p">>, <<CommandFilter(<<"x">>, 4)>>),
       StarHandlerMetadata("m1", <<"q">>,
                           <<PermissionTypeFilter(TRUE), CommandFilter(<<"x">>, 5)>>),
       StarHandlerMetadata("m3", <<"y">>, <<CommandFilter(<<"x">>, 6)>>),
       StarHandlerMetadata("m1", <<"h">>, <<OtherGroup>>),
       StarHandlerMetadata("m3", <<"z">>, <<CommandFilter(<<"y">>, 8), SideGroup>>) >>

HandlerIds == 1..Len(BaseHandlers)

\* the permission filter a handler of the host carries besides: an admin
\* one, one of another permission type, or none
Permission(kind) ==
    IF kind = "admin" THEN <<PermissionTypeFilter(TRUE)>>
    ELSE IF kind = "member" THEN <<PermissionTypeFilter(FALSE)>>
    ELSE <<>>

NoPerms == [id \in HandlerIds |-> "none"]

\* star_handlers_registry's objects as the host has them
Handlers ==
    [id \in HandlerIds |->
        [BaseHandlers[id] EXCEPT !.event_filters = Permission(host.perms[id]) \o @]]

-----------------------------------------------------------------------------
(* _discover_plugins *)

\* _get_plugin_icon_uri: the star's logo.png, or the default icon
GetPluginIconUri(star) == IF star.logo THEN "logo" ELSE "default"

\* get_all_stars() or the read of a star's `activated` raises
EnumerationRaises(h) ==
    ~h.up \/ \E i \in 1..Len(h.stars) : h.stars[i].activated = "raises"

RECURSIVE ScanStars(_, _, _, _)
\* `for star in all_stars`: d holds plugins and star_modules
ScanStars(stars, blacklist, show_builtin, d) ==
    IF Len(stars) = 0 THEN d
    ELSE LET star == Head(stars)
             skip == \/ Len(star.name) = 0 \/ star.name \in blacklist
                     \/ star.module_path = ""
                     \/ star.reserved /\ ~show_builtin
             p == PluginInfo(star.name, star.name, <<>>, GetPluginIconUri(star), Num(99))
             d1 == IF skip THEN d
                   ELSE [plugins |-> Put(d.plugins, p),
                         star_modules |-> [d.star_modules EXCEPT
                                              ![star.module_path] = Some(star.name)]]
         IN ScanStars(Tail(stars), blacklist, show_builtin, d1)

Blacklist(c, skip_blacklist) ==
    (IF skip_blacklist THEN {} ELSE c.plugin_blacklist) \cup {PLUGIN_NAME}

NothingDiscovered == [plugins |-> <<>>, star_modules |-> [m \in ModulePaths |-> None]]

\* the plugins and the module map, when the enumeration does not raise
DiscoverPlugins(h, c, skip_blacklist) ==
    LET Activated(star) == star.activated = "yes" IN
    ScanStars(SelectSeq(h.stars, Activated), Blacklist(c, skip_blacklist),
              c.show_builtin_cmds, NothingDiscovered)

-----------------------------------------------------------------------------
(* _populate_commands: the two passes over the handler registry *)

RECURSIVE CollectGroupHandlerIds(_)
CollectGroupHandlerIds(group) ==
    LET subs == group.sub_command_filters IN
    UNION { IF subs[i].kind = "command" /\ subs[i].handler_md # 0
            THEN {subs[i].handler_md}
            ELSE IF subs[i].kind = "group" THEN CollectGroupHandlerIds(subs[i])
            ELSE {} : i \in 1..Len(subs) }

RECURSIVE CollectNestedGroupNames(_)
CollectNestedGroupNames(group) ==
    LET subs == group.sub_command_filters IN
    UNION { IF subs[i].kind = "group"
            THEN {subs[i].name} \cup CollectNestedGroupNames(subs[i])
            ELSE {} : i \in 1..Len(subs) }

GroupFilters(handler) ==
    {handler.event_filters[i] : i \in {j \in 1..Len(handler.event_filters) :
                                          handler.event_filters[j].kind = "group"}}

Registered(registry) == {registry[i] : i \in 1..Len(registry)}

GroupedHandlerIds(registry) ==
    UNION {CollectGroupHandlerIds(f) :
              f \in UNION {GroupFilters(Handlers[id]) : id \in Registered(registry)}}

NestedGroupsByModule(registry) ==
    [m \in ModulePaths |->
        UNION {CollectNestedGroupNames(f) :
                  f \in UNION {GroupFilters(Handlers[id]) :
                                  id \in {j \in Registered(registry) :
                                             Handlers[j].handler_module_path = m}}}]

\* a first pass that records no nested group name
ScanHandlerGroupsNoNested(registry) ==
    [grouped_ids |-> GroupedHandlerIds(registry),
     nested_groups |-> [m \in ModulePaths |-> {}]]

\* first pass: the handlers held by groups, and the nested group names by module
ScanHandlerGroups(registry) ==
    [grouped_ids |-> GroupedHandlerIds(registry),
     nested_groups |-> NestedGroupsByModule(registry)]

\* a test that takes every permission filter for an admin one
HasAnyPermission(event_filters) ==
    \E i \in 1..Len(event_filters) : event_filters[i].kind = "permission"

HasAdmin(event_filters) ==
    \E i \in 1..Len(event_filters) :
        event_filters[i].kind = "permission" /\ event_filters[i].admin

CommandNames(commands) == {commands[i].name : i \in 1..Len(commands)}

RECURSIVE ExtractGroupCommands(_, _, _, _)
RECURSIVE ExtractSubCommands(_, _, _, _, _)
\* `for sub in group.sub_command_filters`, from the sub-filter at the head of
\* subs on; existing_names is the local set of the call
ExtractSubCommands(subs, commands, existing_names, parent_admin, group_prefix) ==
    IF Len(subs) = 0 THEN commands
    ELSE LET sub == Head(subs)
             full_name == group_prefix \o sub.name
             md == sub.handler_md
             sub_desc == IF md # 0 THEN Handlers[md].desc ELSE <<>>
             sub_admin == parent_admin \/ (md # 0 /\ HasAdmin(Handlers[md].event_filters))
         IN CASE sub.kind = "command" /\ full_name \notin existing_names ->
                   ExtractSubCommands(Tail(subs),
                       Append(commands, CommandInfo(full_name, sub_desc, sub_admin, None)),
                       existing_names \cup {full_name}, parent_admin, group_prefix)
              [] sub.kind = "group" ->
                   ExtractSubCommands(Tail(subs),
                       ExtractGroupCommands(sub, commands, parent_admin, group_prefix),
                       existing_names, parent_admin, group_prefix)
              [] OTHER ->
                   ExtractSubCommands(Tail(subs), commands, existing_names,
                                      parent_admin, group_prefix)

\* _extract_group_commands: the commands of the plugin after the group is flattened
ExtractGroupCommands(group, commands, parent_admin, prefix) ==
    ExtractSubCommands(group.sub_command_filters, commands, CommandNames(commands),
                       parent_admin, prefix \o group.name \o <<" ">>)

\* the last filter of a kind in event_filters, as the loop leaves it
LastFilter(event_filters, kind) ==
    LET at == {i \in 1..Len(event_filters) : event_filters[i].kind = kind} IN
    IF at = {} THEN None
    ELSE Some(event_filters[CHOOSE i \in at : \A j \in at : j <= i])

\* _extract_commands: the commands of the plugin after the handler is read
ExtractCommands(handler, commands) ==
    LET cmd_filter == LastFilter(handler.event_filters, "command")
        group_filter == LastFilter(handler.event_filters, "group")
        is_admin == HasAdmin(handler.event_filters)
    IN IF cmd_filter # None
       THEN IF cmd_filter[1].name \notin CommandNames(commands)
            THEN Append(commands,
                        CommandInfo(cmd_filter[1].name, handler.desc, is_admin, None))
            ELSE commands
       ELSE IF group_filter # None
            THEN ExtractGroupCommands(group_filter[1], commands, is_admin, <<>>)
            ELSE commands

RECURSIVE AssignHandlersToPlugins(_, _, _, _)
\* second pass, from the handler at the head of registry on
AssignHandlersToPlugins(registry, plugins, star_modules, scan) ==
    IF Len(registry) = 0 THEN plugins
    ELSE LET id == Head(registry)
             handler == Handlers[id]
             nested_names == scan.nested_groups[handler.handler_module_path]
             is_nested == \E f \in GroupFilters(handler) : f.name \in nested_names
             plugin_name == star_modules[handler.handler_module_path]
             skip == \/ id \in scan.grouped_ids
                     \/ is_nested
                     \/ plugin_name = None
                     \/ plugin_name[1] \notin Names(plugins)
             i == At(plugins, plugin_name[1])
         IN AssignHandlersToPlugins(Tail(registry),
                IF skip THEN plugins
                ELSE [plugins EXCEPT ![i].commands = ExtractCommands(handler, @)],
                star_modules, scan)

PopulateCommands(d, registry) ==
    AssignHandlersToPlugins(registry, d.plugins, d.star_modules, ScanHandlerGroups(registry))

-----------------------------------------------------------------------------
(* The configuration: overrides and custom categories *)

(* The code of the catalogue exists twice: in the class PluginCollector of  *)
(* collector.py and in the class CustomHelpPlugin of main.py.  The two      *)
(* differ in three places, which take the class as the parameter cls.       *)
Classes == {"PluginCollector", "CustomHelpPlugin"}

\* a parser that leaves custom_prefix None in both classes
ParsePipeCommandAbsentNone(cls, raw) ==
    LET parts == Split(raw, "|")
        name == Strip(parts[1])
        desc == IF Len(parts) > 1 THEN Strip(parts[2]) ELSE <<>>
        custom_prefix == IF Len(parts) > 2 THEN Some(Strip(parts[3])) ELSE None
    IN IF Len(Strip(raw)) = 0 \/ Len(name) = 0 THEN None
       ELSE Some(CommandInfo(name, desc, FALSE, custom_prefix))

\* _parse_pipe_command: None, or the CommandInfo of 'name|description|prefix'
ParsePipeCommand(cls, raw) ==
    LET parts == Split(raw, "|")
        name == Strip(parts[1])
        desc == IF Len(parts) > 1 THEN Strip(parts[2]) ELSE <<>>
        custom_prefix == IF Len(parts) > 2 THEN Some(Strip(parts[3]))
                         ELSE IF cls = "PluginCollector" THEN None
                         ELSE Some(<<>>)
    IN IF Len(Strip(raw)) = 0 \/ Len(name) = 0 THEN None
       ELSE Some(CommandInfo(name, desc, FALSE, custom_prefix))

\* int(x) goes through: an int, or a str of decimal digits between blanks
Coercible(x) ==
    \/ x.t = "int"
    \/ x.t = "str" /\ Len(Strip(x.v)) > 0
                   /\ \A i \in 1..Len(Strip(x.v)) : IsDigit(Strip(x.v)[i])

IntOf(x) == IF x.t = "int" THEN x ELSE Num(Decimal(Strip(x.v)))

\* `p.order = ...` of _apply_overrides
OverrideOrder(cls, order, raw) ==
    IF cls = "PluginCollector"
    THEN IF Coercible(raw) THEN IntOf(raw) ELSE order
    ELSE raw

\* `order = ...` of _apply_custom_categories
CategoryOrder(cls, raw) ==
    IF cls = "PluginCollector"
    THEN IF Coercible(raw) THEN IntOf(raw) ELSE Num(99)
    ELSE raw

RECURSIVE ExtraCommands(_, _, _)
\* `for raw_cmd in override.get("extra_commands", [])`
ExtraCommands(cls, raws, commands) ==
    IF Len(raws) = 0 THEN commands
    ELSE LET cmd == ParsePipeCommand(cls, Head(raws))
             Other(c) == c.name # cmd[1].name
         IN ExtraCommands(cls, Tail(raws),
                IF cmd = None THEN commands
                ELSE Append(SelectSeq(commands, Other), cmd[1]))

RECURSIVE ApplyOverrides(_, _, _)
\* _apply_overrides, from the override at the head of overrides on
ApplyOverrides(cls, overrides, plugins) ==
    IF Len(overrides) = 0 THEN plugins
    ELSE LET override == Head(overrides)
             plugin_name == override.plugin_name
             known == IF plugin_name \in Names(plugins) THEN plugins
                      ELSE Append(plugins,
                                  PluginInfo(plugin_name, <<>>, <<>>, "", Num(99)))
             i == At(known, plugin_name)
             p == known[i]
             p1 == [p EXCEPT
                     !.display_name = IF Len(override.display_name) > 0
                                      THEN override.display_name ELSE @,
                     !.description = IF Len(override.description) > 0
                                     THEN override.description ELSE @,
                     !.order = IF override.order # None
                               THEN OverrideOrder(cls, @, override.order[1]) ELSE @,
                     !.commands = ExtraCommands(cls, override.extra_commands, @)]
         IN ApplyOverrides(cls, Tail(overrides),
                IF Len(plugin_name) = 0 THEN plugins ELSE [known EXCEPT ![i] = p1])

RECURSIVE PipeCommands(_, _)
\* `for raw_cmd in cat.get("commands", [])`
PipeCommands(cls, raws) ==
    IF Len(raws) = 0 THEN <<>>
    ELSE LET cmd == ParsePipeCommand(cls, Head(raws)) IN
         (IF cmd = None THEN <<>> ELSE cmd) \o PipeCommands(cls, Tail(raws))

RECURSIVE ApplyCustomCategories(_, _, _)
\* _apply_custom_categories, from the category at the head of categories on
ApplyCustomCategories(cls, categories, plugins) ==
    IF Len(categories) = 0 THEN plugins
    ELSE LET cat == Head(categories)
             cat_name == <<"custom_">> \o cat.name
             order == CategoryOrder(cls, IF cat.order = None THEN Num(99) ELSE cat.order[1])
             p == [PluginInfo(cat_name, cat.name, cat.description, "", order)
                      EXCEPT !.commands = PipeCommands(cls, cat.commands)]
         IN ApplyCustomCategories(cls, Tail(categories),
                IF Len(cat.name) = 0 \/ Len(p.commands) = 0 THEN plugins
                ELSE Put(plugins, p))

\* _assign_default_icons
AssignDefaultIcons(plugins) ==
    [i \in 1..Len(plugins) |->
        IF plugins[i].icon_url = "" THEN [plugins[i] EXCEPT !.icon_url = "default"]
        ELSE plugins[i]]

-----------------------------------------------------------------------------
(* sorted(plugins.values(), key=lambda p: (p.order, p.name)) *)

\* a < b raises TypeError: an int, a str and None do not compare, nor None with None
OrderLessRaises(a, b) == a.t # b.t \/ a.t = "none"

OrderLess(a, b) == IF a.t = "int" THEN a.v < b.v ELSE StrLess(a.v, b.v)

\* (p.order, p.name) < (q.order, q.name): the tuples are compared by their
\* first items that are not equal
KeyLess(p, q) ==
    IF p.order = q.order THEN StrLess(p.name, q.name) ELSE OrderLess(p.order, q.order)

\* Sorting two or more plugins compares every plugin with another one, and
\* raises when it compares two keys whose orders differ and do not compare.
SortRaises(plugins) ==
    \E i, j \in 1..Len(plugins) :
        plugins[i].order # plugins[j].order
        /\ OrderLessRaises(plugins[i].order, plugins[j].order)

RECURSIVE SortedByKey(_)
SortedByKey(plugins) ==
    IF Len(plugins) = 0 THEN <<>>
    ELSE LET i == CHOOSE i \in 1..Len(plugins) :
                      \A j \in 1..Len(plugins) : j # i => KeyLess(plugins[i], plugins[j])
             rest == [j \in 1..(Len(plugins) - 1) |->
                         IF j < i THEN plugins[j] ELSE plugins[j + 1]]
         IN <<plugins[i]>> \o SortedByKey(rest)

Returned(plugins) == [kind |-> "list", plugins |-> plugins]
TypeError == [kind |-> "raise", plugins |-> <<>>]

Sorted(plugins) ==
    IF SortRaises(plugins) THEN TypeError ELSE Returned(SortedByKey(plugins))

-----------------------------------------------------------------------------
(* collect and _collect_plugins *)

\* the stages after the discovery, which both classes run alike
Catalogue(cls, h, c, d) ==
    Sorted(AssignDefaultIcons(
        ApplyCustomCategories(cls, c.custom_categories,
            ApplyOverrides(cls, c.plugin_overrides,
                PopulateCommands(d, h.registry)))))

\* PluginCollector.collect: a discovery that raised yields no plugin and no
\* module, and the stages go on
Collect(h, c, skip_blacklist) ==
    Catalogue("PluginCollector", h, c,
              IF EnumerationRaises(h) THEN NothingDiscovered
              ELSE DiscoverPlugins(h, c, skip_blacklist))

\* CustomHelpPlugin._collect_plugins: `return []` when the enumeration raised
CollectPlugins(h, c, skip_blacklist) ==
    IF EnumerationRaises(h) THEN Returned(<<>>)
    ELSE Catalogue("CustomHelpPlugin", h, c, DiscoverPlugins(h, c, skip_blacklist))

-----------------------------------------------------------------------------
(* The hosts and configurations the catalogue is collected from *)

MaxStars == 2
MaxHandlers == 3
MaxOverrides == 1
MaxCategories == 1

\* the sequences of at most n members of the sequence pool, in the pool's order
RECURSIVE Picks(_, _)
Picks(pool, n) ==
    IF Len(pool) = 0 \/ n = 0 THEN {<<>>}
    ELSE Picks(Tail(pool), n)
         \cup {<<Head(pool)>> \o rest : rest \in Picks(Tail(pool), n - 1)}

\* the sequences of at most n distinct members of the set pool, in any order
RECURSIVE Arrangements(_, _)
Arrangements(pool, n) ==
    IF n = 0 THEN {<<>>}
    ELSE {<<>>} \cup UNION {{<<x>> \o rest : rest \in Arrangements(pool \ {x}, n - 1)} :
                               x \in pool}

StarP == Star(<<"p">>, "m1", "yes", FALSE, TRUE)
StarQ == Star(<<"q">>, "m2", "yes", FALSE, FALSE)
StarCustomZ == Star(<<"custom_", "z">>, "m3", "yes", FALSE, FALSE)
StarSelf == Star(PLUGIN_NAME, "m0", "yes", FALSE, TRUE)
StarReserved == Star(<<"y">>, "m2", "yes", TRUE, FALSE)
StarInactive == Star(<<"y">>, "m2", "no", FALSE, FALSE)
StarBroken == Star(<<"y">>, "m2", "raises", FALSE, FALSE)

StarPool == <<StarP, StarQ, StarCustomZ, StarSelf, StarReserved, StarInactive, StarBroken>>

Override(plugin_name, order, extra_commands) ==
    [plugin_name |-> plugin_name, display_name |-> <<>>, description |-> <<>>,
     order |-> order, extra_commands |-> extra_commands]

\* 'x|z', ' x |y|!' and 'y'
Overrides ==
    { Override(<<"p">>, None, << <<"x", "|", "z">> >>),
      Override(<<"p">>, Some(Num(5)),
               << <<"x", "|", "z">>, <<" ", "x", " ", "|", "y", "|", "!">> >>),
      Override(<<"p">>, Some(Str(<<"x">>)), <<>>),
      Override(<<"p">>, Some(Null), <<>>),
      Override(<<"p">>, Some(Str(<<"1", "0">>)), <<>>),
      [Override(<<"q">>, Some(Num(5)), << <<"y">> >>) EXCEPT !.display_name = <<"P">>,
                                                             !.description = <<"z">>],
      Override(PLUGIN_NAME, None, << <<"y">> >>),
      Override(<<"custom_", "z">>, None, << <<"x", "|", "z">> >>),
      Override(<<>>, Some(Num(1)), << <<"y">> >>) }

Category(name, order, commands) ==
    [name |-> name, description |-> <<>>, order |-> order, commands |-> commands]

\* 'y'; 'x|p' and 'x|q'; ' ' and '|y'
Categories ==
    { Category(<<"z">>, None, << <<"y">> >>),
      Category(<<"z">>, Some(Str(<<"9">>)), << <<"x", "|", "p">>, <<"x", "|", "q">> >>),
      Category(<<"z">>, Some(Num(1)), << <<" ">>, <<"|", "y">> >>),
      Category(<<"h">>, Some(Str(<<"x">>)), << <<"y">> >>),
      Category(<<>>, None, << <<"y">> >>) }

Config(plugin_blacklist, show_builtin_cmds, plugin_overrides, custom_categories) ==
    [plugin_blacklist |-> plugin_blacklist, show_builtin_cmds |-> show_builtin_cmds,
     plugin_overrides |-> plugin_overrides, custom_categories |-> custom_categories]

Host(up, stars, registry) ==
    [up |-> up, stars |-> stars, registry |-> registry, perms |-> NoPerms]

NoConfig == Config({}, FALSE, <<>>, <<>>)
NoHost == Host(TRUE, <<>>, <<>>)
NoCall == [cls |-> "none", skip_blacklist |-> FALSE]
NoCatalog == [kind |-> "none", plugins |-> <<>>]

\* hosts whose registry varies, under a configuration without overrides
RegistryHosts ==
    {Host(TRUE, stars, registry) :
        stars \in {<<StarP>>, <<StarP, StarCustomZ>>},
        registry \in Arrangements(HandlerIds, MaxHandlers)}

\* hosts with the nested group, where the handlers of g, of h and of the leaf
\* x carry the permission filters of every kind
PermHosts ==
    {[Host(TRUE, <<StarP>>, registry) EXCEPT
         !.perms = [id \in HandlerIds |-> IF id \in 1..3 THEN kinds[id] ELSE "none"]] :
        registry \in {<<1, 2, 3>>, <<3, 2, 1>>},
        kinds \in [1..3 -> {"none", "admin", "member"}]}

\* hosts whose stars vary, with the plain commands registered, under the
\* configurations without overrides and categories
StarHosts == {Host(TRUE, stars, <<4, 5, 6>>) : stars \in Picks(StarPool, MaxStars)}

Flags == {<<{}, FALSE>>, <<{<<"q">>}, FALSE>>, <<{}, TRUE>>}

FlagConfigs == {Config(f[1], f[2], <<>>, <<>>) : f \in Flags}

\* the hosts the overrides and categories are applied to: the last two are
\* a host whose get_all_stars raises and one with a star whose flag raises
ConfigHosts ==
    { Host(TRUE, <<StarP, StarQ>>, <<4, 5, 6>>),
      Host(TRUE, <<StarP, StarCustomZ>>, <<4, 5, 6>>),
      Host(TRUE, <<StarSelf, StarReserved>>, <<4, 5, 6>>),
      Host(FALSE, <<StarP, StarQ>>, <<4, 5, 6>>),
      Host(TRUE, <<StarP, StarBroken>>, <<4, 5, 6>>) }

Configs ==
    {Config(f[1], f[2], plugin_overrides, custom_categories) :
        f \in Flags,
        plugin_overrides \in Arrangements(Overrides, MaxOverrides),
        custom_categories \in Arrangements(Categories, MaxCategories)}

-----------------------------------------------------------------------------
(* The text the menus show for a command *)

\* _get_wake_prefix: the first of the configured prefixes, '/' without any
GetWakePrefix(prefixes) == IF Len(prefixes) > 0 THEN prefixes[1] ELSE <<"/">>

\* _cmd_display_name
CmdDisplayName(cmd, prefix) ==
    (IF cmd.custom_prefix = None THEN prefix ELSE cmd.custom_prefix[1]) \o cmd.name

\* the text shown for the command string raw, None when it parses to no command
Displayed(cls, raw, prefixes) ==
    LET cmd == ParsePipeCommand(cls, raw) IN
    IF cmd = None THEN None ELSE Some(CmdDisplayName(cmd[1], GetWakePrefix(prefixes)))

MaxRaw == 4

PipeAlphabet == {"x", "|", " ", "!"}

\* the strings of at most n symbols of the alphabet
RECURSIVE Strings(_, _)
Strings(alphabet, n) ==
    IF n = 0 THEN {<<>>}
    ELSE {<<>>} \cup {<<a>> \o rest : a \in alphabet, rest \in Strings(alphabet, n - 1)}

\* the bot's wake_prefix setting: the empty list, ['#'] and ['']
WakePrefixes == {<<>>, << <<"#">> >>, << <<>> >>}

NoPipe == [raw |-> <<>>, wake_prefix |-> <<>>, cls |-> "none", shown |-> None]

\* one class parses the string and the menu shows the command
ShowCommand(cls) ==
    /\ pipe.cls = "none"
    /\ pipe' = [pipe EXCEPT !.cls = cls,
                            !.shown = Displayed(cls, pipe.raw, pipe.wake_prefix)]
    /\ UNCHANGED <<key_vars, catalog_vars, event, reply, instance_vars>>
    /\ AssignPlugin(St)

-----------------------------------------------------------------------------
(* help_command: from the message to the menu it asks the cache for *)

\* admins_id of the bot's configuration
AdminsId == {"s1"}

\* _is_admin
IsAdmin(e) == e.sender_id \in AdminsId

\* list.remove(word): the list without the first occurrence of the word
RemoveFirst(parts, word) ==
    LET i == CHOOSE i \in 1..Len(parts) : parts[i] = word /\ \A j \in 1..(i - 1) : parts[j] # word
    IN SubSeq(parts, 1, i - 1) \o SubSeq(parts, i + 1, Len(parts))

\* a show_all without the test of the sender
ShowAllAnySender(is_admin, has_admin_flag, admin_show_all) ==
    has_admin_flag \/ admin_show_all

\* `show_all = is_admin and (has_admin_flag or admin_show_all)`
ShowAll(is_admin, has_admin_flag, admin_show_all) ==
    is_admin /\ (has_admin_flag \/ admin_show_all)

\* what help_command yields: the template asked for with the plugins its data
\* is built from, or a plain text, or the exception of _collect_plugins
Reply(kind, show_all, plugins, text) ==
    [kind |-> kind, show_all |-> show_all, plugins |-> plugins, text |-> text]

\* _render_main_menu, up to the call of _get_cached_or_render
RenderMainMenu(h, c, show_all) ==
    LET collected == CollectPlugins(h, c, show_all)
        HasCommands(p) == Len(p.commands) > 0
        plugins == SelectSeq(collected.plugins, HasCommands)
    IN IF collected.kind = "raise" THEN Reply("raise", show_all, <<>>, <<>>)
       ELSE IF Len(plugins) = 0 THEN Reply("no commands", show_all, <<>>, <<>>)
       ELSE Reply("main_menu.html", show_all, plugins, <<>>)

\* `for p in plugins: if ...: target = p; break`: the first of the plugins at
\* the positions that pass the test, None without one
FirstPlugin(plugins, at) ==
    IF at = {} THEN None ELSE Some(plugins[CHOOSE i \in at : \A j \in at : i <= j])

\* _render_sub_menu, up to the call of _get_cached_or_render
RenderSubMenu(h, c, query, show_all) ==
    LET collected == CollectPlugins(h, c, show_all)
        query_lower == Lower(query)
        Exact(p) == Lower(p.name) = query_lower \/ Lower(p.display_name) = query_lower
        Within(p) == \/ Contains(query_lower, Lower(p.name))
                     \/ Contains(query_lower, Lower(p.display_name))
        Passing(Test(_)) == {i \in 1..Len(collected.plugins) : Test(collected.plugins[i])}
        exact == FirstPlugin(collected.plugins, Passing(Exact))
        target == IF exact # None THEN exact
                  ELSE FirstPlugin(collected.plugins, Passing(Within))
    IN IF collected.kind = "raise" THEN Reply("raise", show_all, <<>>, <<>>)
       ELSE IF target = None THEN Reply("not found", show_all, <<>>, query)
       ELSE Reply("sub_menu.html", show_all, target, <<>>)

\* the words of the stripped query hold the token --admin
HasAdminFlag(query) ==
    \E i \in 1..Len(Words(query)) : Words(query)[i] = <<"--admin">>

\* help_command
HelpReply(h, c, e) ==
    LET stripped == Strip(e.query)
        parts == Words(stripped)
        has_admin_flag == HasAdminFlag(e.query)
        query == IF has_admin_flag THEN Join(RemoveFirst(parts, <<"--admin">>))
                 ELSE stripped
        show_all == ShowAll(IsAdmin(e), has_admin_flag, e.admin_show_all)
    IN IF Len(query) > 0 THEN RenderSubMenu(h, c, query, show_all)
       ELSE RenderMainMenu(h, c, show_all)

MaxQuery == 5

QueryAlphabet == {"p", " ", "--admin"}

Queries == Strings(QueryAlphabet, MaxQuery)

Event(sender_id, admin_show_all, query) ==
    [sender_id |-> sender_id, admin_show_all |-> admin_show_all, query |-> query]

NoEvent == Event("s1", FALSE, <<>>)
NoReply == Reply("none", FALSE, <<>>, <<>>)

\* q is blacklisted; in the second configuration p is displayed as 'p p'
HelpConfigs ==
    { Config({<<"q">>}, FALSE, <<>>, <<>>),
      Config({<<"q">>}, FALSE,
             <<[Override(<<"p">>, None, <<>>) EXCEPT !.display_name = <<"p", " ", "p">>]>>,
             <<>>) }

\* the bot dispatches a help message to help_command
HelpMenu ==
    /\ reply = NoReply
    /\ reply' = HelpReply(host, config, event)
    /\ UNCHANGED <<key_vars, catalog_vars, pipe, event, instance_vars>>
    /\ AssignPlugin(St)

-----------------------------------------------------------------------------
(* The two collections as actions *)

CallCollect(skip_blacklist) ==
    /\ call = NoCall
    /\ call' = [cls |-> "PluginCollector", skip_blacklist |-> skip_blacklist]
    /\ catalog' = Collect(host, config, skip_blacklist)
    /\ UNCHANGED <<host, config, key_vars, menu_vars, instance_vars>>
    /\ AssignPlugin(St)

CallCollectPlugins(skip_blacklist) ==
    /\ call = NoCall
    /\ call' = [cls |-> "CustomHelpPlugin", skip_blacklist |-> skip_blacklist]
    /\ catalog' = CollectPlugins(host, config, skip_blacklist)
    /\ UNCHANGED <<host, config, key_vars, menu_vars, instance_vars>>
    /\ AssignPlugin(St)

-----------------------------------------------------------------------------
\* the plugin object after __init__
InitCache ==
    /\ disk_cache \in BOOLEAN
    /\ image_cache = [k \in Keys |-> 0]
    /\ \E f \in {NoFile, UnreadableFile} :
          files = [j \in Keys |-> IF disk_cache /\ j = "main" THEN f ELSE NoFile]
    /\ render_locks = [k \in Keys |-> "none"]
    /\ lockGen = "g0"
    /\ held = {}
    /\ terminated = FALSE
    /\ cancelReq = FALSE
    /\ valid_keys = {}
    /\ idx = 1
    /\ sweepEnd = "none"
    /\ pcT = "none"
    /\ renders = [k \in Keys |-> 0]
    /\ raised = FALSE
    /\ wfail = FALSE
    /\ unlinkFailed = {}
    /\ result = [t \in Req |-> [kind |-> "none", n |-> 0, via |-> "none"]]
    /\ late = [t \in Req |-> FALSE]

\* the module renderer after its import
InitRenderer ==
    /\ sem = {}
    /\ block = {}
    /\ browser = "none"
    /\ pw = FALSE

InitPlugin ==
    /\ InitCache
    /\ InitRenderer
    /\ pc = [t \in Tasks |-> IF t = Sweep THEN "none" ELSE "idle"]
    /\ key = [t \in Tasks |-> "main"]
    /\ lk = [t \in Tasks |-> "g0"]
    /\ ser = [t \in Tasks |-> 0]
    /\ sawCorrupt = [t \in Tasks |-> FALSE]

InitKeyIdle ==
    /\ template_name = <<MainMenu, MainMenu>>
    /\ data = <<Map(<<>>), Map(<<>>)>>
    /\ cache_keys = <<>>

InitCatalogIdle ==
    /\ host = NoHost
    /\ config = NoConfig
    /\ call = NoCall
    /\ catalog = NoCatalog

InitMenuIdle ==
    /\ pipe = NoPipe
    /\ event = NoEvent
    /\ reply = NoReply

\* no browser was launched yet
InitInstances ==
    /\ live = {}
    /\ ref = 0
    /\ got = [t \in Callers |-> 0]
    /\ launched = 0

Init == InitPlugin /\ InitKeyIdle /\ InitCatalogIdle /\ InitMenuIdle /\ InitInstances

Next ==
    \/ \E t \in Req : \E k \in Keys : HelpCommand(t, k)
    \/ Initialize
    \/ \E uf \in UnlinkOutcomes(Sweep) : SweepWakes(uf)
    \/ \E b \in BOOLEAN : SweepCancelled(b)
    \/ \E t \in Tasks : \E uf \in UnlinkOutcomes(t) : KeyLockAcquired(t, uf)
    \/ \E t \in Tasks : BrowserLockAcquired(t)
    \/ \E t \in Tasks : LaunchDone(t)
    \/ \E t \in Tasks : \E b \in BOOLEAN : LaunchFails(t, b)
    \/ \E t \in Tasks : \E wr \in WriteOutcomes : \E uf \in UnlinkOutcomes(t) :
          PageDone(t, wr, uf)
    \/ \E t \in Tasks : PageFails(t)
    \/ Terminate
    \/ TerminateResume
    \/ CleanupLockAcquired
    \/ CleanupDone

Spec == Init /\ [][Next]_vars

(* The plugin while terminate() is not called *)
NextRunning ==
    \/ \E t \in Req : \E k \in Keys : HelpCommand(t, k)
    \/ Initialize
    \/ \E uf \in UnlinkOutcomes(Sweep) : SweepWakes(uf)
    \/ \E t \in Tasks : \E uf \in UnlinkOutcomes(t) : KeyLockAcquired(t, uf)
    \/ \E t \in Tasks : BrowserLockAcquired(t)
    \/ \E t \in Tasks : LaunchDone(t)
    \/ \E t \in Tasks : \E b \in BOOLEAN : LaunchFails(t, b)
    \/ \E t \in Tasks : \E wr \in WriteOutcomes : \E uf \in UnlinkOutcomes(t) :
          PageDone(t, wr, uf)
    \/ \E t \in Tasks : PageFails(t)

SpecRunning == Init /\ [][NextRunning]_vars

(* Help requests that overlap, and nothing else: no sweep, no terminate() *)
NextConcurrent ==
    \/ \E t \in Req : \E k \in Keys : ConcurrentCall(t, k)
    \/ \E t \in Req : KeyLockAcquired(t, {})
    \/ \E t \in Req : BrowserLockAcquired(t)
    \/ \E t \in Req : LaunchDone(t)
    \/ \E t \in Req : \E b \in BOOLEAN : LaunchFails(t, b)
    \/ \E t \in Req : \E wr \in WriteOutcomes : PageDone(t, wr, {})
    \/ \E t \in Req : PageFails(t)

SpecConcurrent == Init /\ [][NextConcurrent]_vars

(* _cache_key alone, on pairs of template names and payloads *)
InitKey ==
    /\ InitPlugin
    /\ ~disk_cache
    /\ template_name \in TemplateNames \X TemplateNames
    /\ data \in Payloads \X Payloads
    /\ cache_keys = <<>>
    /\ InitCatalogIdle
    /\ InitMenuIdle
    /\ InitInstances

NextKey == ComputeKeys

SpecKey == InitKey /\ [][NextKey]_vars

(* The catalogue alone: one collection from a host and a configuration *)
InitCatalog ==
    /\ InitPlugin
    /\ ~disk_cache
    /\ InitKeyIdle
    /\ \/ host \in RegistryHosts /\ config = NoConfig
       \/ host \in PermHosts /\ config = NoConfig
       \/ host \in StarHosts /\ config \in FlagConfigs
       \/ host \in ConfigHosts /\ config \in Configs
    /\ call = NoCall
    /\ catalog = NoCatalog
    /\ InitMenuIdle
    /\ InitInstances

NextCatalog ==
    \/ \E skip_blacklist \in BOOLEAN : CallCollect(skip_blacklist)
    \/ \E skip_blacklist \in BOOLEAN : CallCollectPlugins(skip_blacklist)

SpecCatalog == InitCatalog /\ [][NextCatalog]_vars

(* The pipe-delimited command strings alone: parsed once and shown *)
InitPipe ==
    /\ InitPlugin
    /\ ~disk_cache
    /\ InitKeyIdle
    /\ InitCatalogIdle
    /\ pipe \in [raw : Strings(PipeAlphabet, MaxRaw), wake_prefix : WakePrefixes,
                 cls : {"none"}, shown : {None}]
    /\ event = NoEvent
    /\ reply = NoReply
    /\ InitInstances

NextPipe ==
    \/ ShowCommand("PluginCollector")
    \/ ShowCommand("CustomHelpPlugin")

SpecPipe == InitPipe /\ [][NextPipe]_vars

(* help_command alone: one message, from an admin or not *)
InitHelp ==
    /\ InitPlugin
    /\ ~disk_cache
    /\ InitKeyIdle
    /\ host = Host(TRUE, <<StarP, StarQ>>, <<4, 5, 6>>)
    /\ config \in HelpConfigs
    /\ call = NoCall
    /\ catalog = NoCatalog
    /\ pipe = NoPipe
    /\ event \in {Event(sender_id, admin_show_all, query) :
                     sender_id \in {"s1", "s2"}, admin_show_all \in BOOLEAN,
                     query \in Queries}
    /\ reply = NoReply
    /\ InitInstances

NextHelp == HelpMenu

SpecHelp == InitHelp /\ [][NextHelp]_vars

(* The renderer alone: NumCallers tasks call render_template *)
InitLimiter ==
    /\ InitCache
    /\ ~disk_cache
    /\ InitRenderer
    /\ pc = [t \in Callers |-> "idle"]
    /\ key = [t \in Callers |-> "main"]
    /\ lk = [t \in Callers |-> "g0"]
    /\ ser = [t \in Callers |-> 0]
    /\ sawCorrupt = [t \in Callers |-> FALSE]
    /\ InitKeyIdle
    /\ InitCatalogIdle
    /\ InitMenuIdle
    /\ InitInstances

NextLimiter ==
    \/ \E t \in Callers : RenderTemplateCalled(t)
    \/ \E t \in Callers : SemAcquired(t)
    \/ \E t \in Callers : BrowserLockAcquired(t)
    \/ \E t \in Callers : LaunchDone(t)
    \/ \E t \in Callers : \E pwAfter \in BOOLEAN : LaunchRaises(t, pwAfter)
    \/ \E t \in Callers : ScreenshotReturns(t)
    \/ \E t \in Callers : PageRaises(t)
    \/ \E t \in Callers : \E pwAfter \in BOOLEAN : CallCancelled(t, pwAfter)

SpecLimiter == InitLimiter /\ [][NextLimiter]_vars

(* The browser alone: NumCallers tasks call _get_browser, and cleanup() runs *)
NextBrowser ==
    \/ \E t \in Callers : GetBrowserCalled(t)
    \/ \E t \in Callers : GetBrowserLockAcquired(t)
    \/ \E t \in Callers : OldBrowserClosed(t)
    \/ \E t \in Callers : OldPlaywrightStopped(t)
    \/ \E t \in Callers : PlaywrightStarted(t)
    \/ \E t \in Callers : BrowserLaunched(t)
    \/ \E t \in Callers : GetBrowserRaises(t)
    \/ BrowserDisconnects
    \/ CleanupCalled
    \/ CleanupGetsLock
    \/ CleanupBrowserClosed
    \/ CleanupPlaywrightStopped

SpecBrowser == InitLimiter /\ [][NextBrowser]_vars

(* The plugin under fair scheduling.  The event loop resumes a task whose  *)
(* wait is over: a sleep that elapsed, a cancellation that was requested,   *)
(* a lock or a slot that is free, an awaited task that is done.  Every call *)
(* into playwright returns or raises in the end.  That a help request       *)
(* arrives, that initialize() or terminate() is called, is up to the host:  *)
(* no fairness.                                                             *)

\* where a task can be suspended, and where terminate() can
Positions == {"none", "idle", "sleep1", "sleep2", "lockwait", "sem", "blk",
              "launch", "page", "done"}
TermPositions == {"none", "await", "cleanupwait", "closing", "done"}

\* the wait of task t is over
Ready(t) ==
    \/ t = Sweep /\ cancelReq /\ pc[t] \notin {"none", "done"}
    \/ /\ Runs(t)
       /\ \/ pc[t] \in {"sleep1", "sleep2", "launch", "page"}
          \/ pc[t] = "lockwait" /\ LockFree(St, key[t], lk[t])
          \/ pc[t] = "sem" /\ Cardinality(sem) < SemMax
          \/ pc[t] = "blk" /\ block = {}

\* the wait of terminate() is over
ReadyTerm ==
    \/ pcT = "await" /\ pc[Sweep] = "done"
    \/ pcT = "cleanupwait" /\ block = {}
    \/ pcT = "closing"

\* task t leaves the point where it is suspended (the sweep may come to
\* the same kind of point for its next menu)
Resumed(t) ==
    /\ Ready(t)
    /\ pc' \in [DOMAIN pc -> Positions]
    /\ idx' \in 1..(Len(SweepPlan) + 1)
    /\ IF t = Sweep THEN <<pc'[t], idx'>> # <<pc[t], idx>> ELSE pc'[t] # pc[t]

TermResumed ==
    /\ ReadyTerm
    /\ pcT' \in TermPositions \ {pcT}

Fairness ==
    /\ \A t \in Tasks : WF_<<pc, idx>>(Resumed(t))
    /\ WF_pcT(TermResumed)

SpecFair == Init /\ [][Next]_vars /\ Fairness

-----------------------------------------------------------------------------
(* Claims *)

Rendering(k) == {t \in Tasks : pc[t] \in InRender /\ key[t] = k}

\* Every render call made so far returned.
RenderSucceeds == ~raised

OnceAndSame ==
    \A k \in Keys :
        /\ renders[k] <= 1
        /\ \A t \in Req : pc[t] = "done" /\ key[t] = k =>
              result[t] = Image(1, result[t].via) /\ renders[k] = 1

C2_OneRenderPerKey == \A k \in Keys : Cardinality(Rendering(k)) <= 1

\* The step in which the sweep runs its eviction block.  In the same step
\* the sweep may have written the entry of the last menu it rendered.
EvictStep == sweepEnd = "none" /\ sweepEnd' = "completed"

Kept(k) ==
    /\ files[k].st = "ok" => files'[k] = files[k]
    /\ image_cache[k] # 0 => image_cache'[k] = image_cache[k]

Absent(k) == files'[k] = NoFile /\ image_cache'[k] = 0

\* C3 as stated: the step that ends a completed sweep leaves no entry whose
\* key is outside valid_keys and keeps every entry that was stored under a
\* key in it.
C3_StaleEvicted ==
    [][EvictStep =>
          \A k \in Keys :
              IF k \in valid_keys' THEN Kept(k) ELSE Absent(k)]_vars

\* C3 as amended: in disk mode a stale file whose unlink raised OSError stays.
C3_StaleEvictedUnlessUnlinkFails ==
    [][EvictStep =>
          \A k \in Keys :
              CASE k \in valid_keys' -> Kept(k)
                [] k \in unlinkFailed' -> files'[k] = files[k]
                [] OTHER -> Absent(k)]_vars

\* A request rendered and stored Z's sub-menu, the sweep completed, and the
\* entry is gone (disk mode, no write and no unlink failed): the eviction is
\* all that removes a stored file, so the request stored it before the end.
C3_Witness ==
    /\ sweepEnd = "completed" /\ disk_cache /\ ~wfail /\ unlinkFailed = {}
    /\ \E t \in Req : pc[t] = "done" /\ key[t] = "subZ"
                      /\ result[t].kind = "image" /\ result[t].via = "render"
    /\ files["subZ"] = NoFile
    /\ \A k \in valid_keys : files[k].st = "ok"

Arrives(t) == pc[t] = "idle" /\ pc'[t] # "idle"

ServedFromCache(t) ==
    pc'[t] = "done" /\ result'[t].kind = "image" /\ result'[t].via = "fast"
    /\ renders' = renders

C5_LockReleased ==
    \A h \in held : pc[h[3]] \in InLocked /\ key[h[3]] = h[1] /\ lk[h[3]] = h[2]

\* A render raised and its request got the fallback; another request for the
\* same key holds the key's lock and is rendering again.
C5_Witness ==
    \E t \in Req : \E u \in Req :
        /\ pc[t] = "done" /\ result[t].kind = "text"
        /\ pc[u] \in InRender /\ key[u] = key[t] /\ <<key[u], lk[u], u>> \in held
        /\ renders[key[u]] = 2

\* C6: the step in which a request's render call raises ends the handler
\* with the plain-text fallback and writes nothing to the store.
C6_FallbackOnRaise ==
    [][\A t \in Req :
          pc[t] \in InRender /\ pc'[t] = "done" /\ result'[t].kind # "image"
          => /\ result'[t].kind = "text"
             /\ files' = files
             /\ image_cache' = image_cache]_vars

\* A request ended with the fallback and the store holds nothing for its key.
C6_Witness ==
    \E t \in Req : pc[t] = "done" /\ result[t].kind = "text" /\ ~StoreHit(St, key[t])

CleanupStarted == pcT \in {"cleanupwait", "closing", "done"}

\* C7: from the moment terminate() calls renderer.cleanup(), the sweep task
\* is done (or was never created) and holds no lock and no render slot.
C7_SweepDoneBeforeCleanup ==
    CleanupStarted =>
        /\ terminated
        /\ pc[Sweep] \in {"none", "done"}
        /\ Sweep \notin sem /\ Sweep \notin block
        /\ \A h \in held : h[3] # Sweep

\* The sweep was cancelled inside its first render call and cleanup is
\* closing the browser that call had launched.
C7_Witness ==
    /\ pcT = "closing" /\ sweepEnd = "cancelled" /\ raised
    /\ renders["main"] = 1 /\ renders["subP"] = 0
    /\ \A t \in Req : pc[t] = "idle"

\* C8 as stated: after terminate() has returned there is no browser and no
\* playwright instance.
C8_NoBrowserAfterTerminate == pcT = "done" => browser = "none" /\ ~pw

FastPathOnCorrupt(t) ==
    Arrives(t) /\ disk_cache /\ files[key'[t]].st \in {"empty", "unreadable"}

RenderReturnsTo(t) ==
    pc[t] = "page" /\ pc'[t] = "done" /\ result'[t].kind = "image"

NeverCorruptBytes == \A t \in Req : result[t].kind = "image" => result[t].n >= 1

RECURSIVE SameValue(_, _)
\* x and y are equal as nested mappings, lists and strings
SameValue(x, y) ==
    /\ x.t = y.t
    /\ CASE x.t = "str" -> x.v = y.v
         [] x.t = "list" ->
              /\ Len(x.v) = Len(y.v)
              /\ \A i \in 1..Len(x.v) : SameValue(x.v[i], y.v[i])
         [] OTHER ->
              /\ {x.v[i][1] : i \in 1..Len(x.v)} = {y.v[j][1] : j \in 1..Len(y.v)}
              /\ \A i \in 1..Len(x.v) : \A j \in 1..Len(y.v) :
                    x.v[i][1] = y.v[j][1] => SameValue(x.v[i][2], y.v[j][2])

\* the template name without its ".html" suffix
Stem(name) ==
    IF Len(name) > 0 /\ name[Len(name)] = ".html"
    THEN SubSeq(name, 1, Len(name) - 1) ELSE name

\* C10: two calls with the same template name and payloads that are equal up
\* to the insertion order of mapping keys, at any depth, return the same key;
\* two calls whose template names differ without the suffix return
\* different keys.
C10_KeyIgnoresInsertionOrder ==
    Len(cache_keys) = 2 =>
        /\ template_name[1] = template_name[2] /\ SameValue(data[1], data[2])
              => cache_keys[1] = cache_keys[2]
        /\ Stem(template_name[1]) # Stem(template_name[2])
              => cache_keys[1] # cache_keys[2]

\* Two payloads whose keys were inserted in different orders at the top and
\* in the nested mapping inside a list, and one key for both.
C10_Witness ==
    /\ Len(cache_keys) = 2
    /\ template_name[1] = template_name[2]
    /\ SameValue(data[1], data[2])
    /\ data[1].v[1][1] = 1 /\ data[2].v[1][1] = 2
    /\ data[1].v[1][2].t = "list"
    /\ data[1].v[1][2].v[1].v[1][1] # data[2].v[2][2].v[1].v[1][1]
    /\ cache_keys[1] = cache_keys[2]

-----------------------------------------------------------------------------
(* Claims about the catalogue *)

Called == call.cls # "none"

Listed == catalog.kind = "list"

\* the entries of the returned list that bear the name
Entries(name) == {i \in 1..Len(catalog.plugins) : catalog.plugins[i].name = name}

\* the commands of the returned plugin of that name
CommandsOf(name) == catalog.plugins[CHOOSE i \in Entries(name) : TRUE].commands

Named(commands, name) == {i \in 1..Len(commands) : commands[i].name = name}

NestedRegistered == {1, 2, 3} \subseteq Registered(host.registry)

\* C11: when the registry holds the handler of the group g > h > x, the
\* handler of the group h and the handler of the leaf x, all of module m1, the
\* plugin of m1 gets exactly one command "g h x", no command "h x", and a
\* command "x" only from a handler that carries the plain command x.
C11_NestedGroupOnce ==
    Called /\ Listed /\ NestedRegistered /\ config = NoConfig =>
        /\ Entries(<<"p">>) # {}
        /\ LET commands == CommandsOf(<<"p">>) IN
           /\ Cardinality(Named(commands, <<"g", " ", "h", " ", "x">>)) = 1
           /\ Named(commands, <<"h", " ", "x">>) = {}
           /\ Named(commands, <<"x">>) # {} => Registered(host.registry) \cap {4, 5} # {}
           /\ Len(commands) = 1 + Cardinality(Named(commands, <<"x">>))

\* The handlers of h and of x come before the handler of g in the registry,
\* and the plugin has the one command "g h x".
C11_Witness ==
    /\ Called /\ Listed /\ host.registry = <<2, 3, 1>>
    /\ Entries(<<"p">>) # {}
    /\ Len(CommandsOf(<<"p">>)) = 1
    /\ CommandsOf(<<"p">>)[1].name = <<"g", " ", "h", " ", "x">>

\* C12 as stated: in every PluginInfo of the returned list, no two commands
\* have the same name.
C12_CommandNamesDistinct ==
    Called /\ Listed =>
        \A i \in 1..Len(catalog.plugins) :
            LET commands == catalog.plugins[i].commands IN
            \A j, k \in 1..Len(commands) : commands[j].name = commands[k].name => j = k

\* the plugins with their discovered commands, before the overrides
Discovered ==
    IF EnumerationRaises(host) THEN <<>>
    ELSE PopulateCommands(DiscoverPlugins(host, config, call.skip_blacklist), host.registry)

RECURSIVE ExtraStrings(_, _)
\* the extra command strings the override records list for the plugin, in order
ExtraStrings(overrides, name) ==
    IF Len(overrides) = 0 THEN <<>>
    ELSE (IF Head(overrides).plugin_name = name THEN Head(overrides).extra_commands
          ELSE <<>>) \o ExtraStrings(Tail(overrides), name)

Segment(raw, n) == IF Len(Split(raw, "|")) >= n THEN Strip(Split(raw, "|")[n]) ELSE <<>>

\* the last of the strings whose name segment is the name
LastNaming(raws, name) ==
    LET at == {i \in 1..Len(raws) : Segment(raws[i], 1) = name} IN
    raws[CHOOSE i \in at : \A j \in at : j <= i]

OverridesCommand(i, name) ==
    /\ Named(Discovered[i].commands, name) # {}
    /\ \E j \in 1..Len(ExtraStrings(config.plugin_overrides, Discovered[i].name)) :
          Segment(ExtraStrings(config.plugin_overrides, Discovered[i].name)[j], 1) = name

\* C13 as stated: a discovered command that an override record of its plugin
\* names again is, in the returned plugin, one command with the description
\* and the prefix of the last override string that names it.
C13_OverrideWins ==
    Called /\ Listed =>
        \A i \in 1..Len(Discovered) : \A name \in CommandNames(Discovered[i].commands) :
            OverridesCommand(i, name) =>
                LET plugin == Discovered[i].name
                    raw == LastNaming(ExtraStrings(config.plugin_overrides, plugin), name)
                IN /\ Entries(plugin) # {}
                   /\ Cardinality(Named(CommandsOf(plugin), name)) = 1
                   /\ \A k \in Named(CommandsOf(plugin), name) :
                         /\ CommandsOf(plugin)[k].description = Segment(raw, 2)
                         /\ Len(Split(raw, "|")) > 2 =>
                               CommandsOf(plugin)[k].custom_prefix = Some(Segment(raw, 3))


\* C14 as stated: when the enumeration of the host registry raises, the
\* collection of either class raises nothing and returns the empty list,
\* whatever overrides and categories are configured.
C14_EnumerationFailureIsEmpty ==
    Called /\ EnumerationRaises(host) => catalog = Returned(<<>>)


\* an order value is there and int() does not go through on it
Malformed(order) == order # None /\ ~Coercible(order[1])

\* the records without their malformed order fields
WithoutMalformed(records) ==
    [i \in 1..Len(records) |->
        IF Malformed(records[i].order) THEN [records[i] EXCEPT !.order = None]
        ELSE records[i]]

HasMalformed(records) == \E i \in 1..Len(records) : Malformed(records[i].order)

\* what the call made returns for the configuration c
Recollect(c) ==
    IF call.cls = "PluginCollector" THEN Collect(host, c, call.skip_blacklist)
    ELSE CollectPlugins(host, c, call.skip_blacklist)

\* every order is an integer, and the list ascends by order, then by name
ByOrderAndName(plugins) ==
    /\ \A i \in 1..Len(plugins) : plugins[i].order.t = "int"
    /\ \A i, j \in 1..Len(plugins) :
          i < j => \/ plugins[i].order.v < plugins[j].order.v
                   \/ /\ plugins[i].order.v = plugins[j].order.v
                      /\ StrLess(plugins[i].name, plugins[j].name)

\* C15 as stated: with an order value in an override or in a category that
\* int() rejects, the collection of either class raises nothing, returns what
\* it returns without that value, and the list has integer orders and
\* ascends by (order, name).
C15_MalformedOrderIgnored ==
    Called /\ (HasMalformed(config.plugin_overrides) \/ HasMalformed(config.custom_categories)) =>
        /\ Listed
        /\ ByOrderAndName(catalog.plugins)
        /\ catalog = Recollect([config EXCEPT
                                   !.plugin_overrides = WithoutMalformed(@),
                                   !.custom_categories = WithoutMalformed(@)])


\* C17 as stated: what collect() returns has no plugin named after this
\* plugin, and none whose name is in plugin_blacklist unless the call skips
\* the blacklist, whatever overrides and categories are configured.
C17_BlacklistedAbsent ==
    call.cls = "PluginCollector" /\ Listed =>
        \A i \in 1..Len(catalog.plugins) :
            /\ catalog.plugins[i].name # PLUGIN_NAME
            /\ ~call.skip_blacklist => catalog.plugins[i].name \notin config.plugin_blacklist

\* the number an order stands for
OrderValue(order) == IntOf(order).v

\* C19 as stated: what collect() returns ascends by order and, among equal
\* orders, by name, and no two of its plugins share a name.  Orders are
\* compared as the numbers they stand for; a plugin whose order stands for
\* no number is left out of the comparison.
C19_SortedByOrderAndName ==
    Called /\ Listed =>
        \A i, j \in 1..Len(catalog.plugins) :
            LET p == catalog.plugins[i]
                q == catalog.plugins[j]
            IN i < j =>
                  /\ p.name # q.name
                  /\ Coercible(p.order) /\ Coercible(q.order) =>
                        \/ OrderValue(p.order) < OrderValue(q.order)
                        \/ /\ OrderValue(p.order) = OrderValue(q.order)
                           /\ StrLess(p.name, q.name)

\* the handler carries an admin permission filter
AdminHandler(id) == host.perms[id] = "admin"

\* the leaf command of the nested group, as flattened
NestedLeaf == <<"g", " ", "h", " ", "x">>

\* C22 as stated: the leaf that the flattening of g > h > x emits is
\* admin_only exactly when the handler of the leaf, the handler of the
\* top-level group g or the handler registered for the nested group h
\* carries an admin permission filter; filters of another permission type
\* count for nothing.
C22_AdminFromAnyEnclosingGroup ==
    Called /\ Listed /\ NestedRegistered /\ config = NoConfig /\ Entries(<<"p">>) # {} =>
        \A k \in Named(CommandsOf(<<"p">>), NestedLeaf) :
            CommandsOf(<<"p">>)[k].admin_only
                = (AdminHandler(3) \/ AdminHandler(1) \/ AdminHandler(2))

\* C22, amended: the leaf is emitted, and it is admin_only exactly when the
\* handler of the leaf or the handler that carries the top-level group g
\* carries an admin permission filter; the filters of the handler registered
\* for the nested group h are not read, and filters of another permission
\* type count for nothing.
C22_AdminFromLeafOrTopGroup ==
    Called /\ Listed /\ NestedRegistered /\ config = NoConfig /\ Entries(<<"p">>) # {} =>
        /\ Named(CommandsOf(<<"p">>), NestedLeaf) # {}
        /\ \A k \in Named(CommandsOf(<<"p">>), NestedLeaf) :
              CommandsOf(<<"p">>)[k].admin_only = (AdminHandler(3) \/ AdminHandler(1))

\* Only the handler registered for the nested group h carries an admin
\* filter, the two others carry a filter of another type, and the leaf is not
\* admin_only.
C22_Witness ==
    /\ Called /\ Listed /\ NestedRegistered
    /\ host.perms[2] = "admin" /\ host.perms[1] = "member" /\ host.perms[3] = "member"
    /\ Entries(<<"p">>) # {}
    /\ \E k \in Named(CommandsOf(<<"p">>), NestedLeaf) : ~CommandsOf(<<"p">>)[k].admin_only

\* the command of the top-level group h, as flattened
OtherLeaf == <<"h", " ", "y">>

\* the handler of the top-level group h is registered next to the handler
\* of the group g, which nests a sub-group of the same name
SameNameRegistered == {1, 7} \subseteq Registered(host.registry)

\* C23 as stated: the handler that carries the top-level group h, a group
\* that no other group holds among its sub_command_filters, is never
\* suppressed: its flattened command is listed for its plugin, also when the
\* group g of the same module nests a sub-group named h.
C23_TopLevelGroupNeverSuppressed ==
    Called /\ Listed /\ config = NoConfig /\ Entries(<<"p">>) # {}
           /\ 7 \in Registered(host.registry) =>
        Named(CommandsOf(<<"p">>), OtherLeaf) # {}

\* Both handlers are registered, the plugin is listed with the command of
\* the nested group, and the command of the top-level group h is missing.
C23_SuppressedByName ==
    /\ Called /\ Listed /\ config = NoConfig /\ SameNameRegistered
    /\ Entries(<<"p">>) # {}
    /\ Named(CommandsOf(<<"p">>), OtherLeaf) = {}

\* Without the group g the command of the top-level group h is listed.
C23_ListedAlone ==
    /\ Called /\ Listed /\ config = NoConfig
    /\ Registered(host.registry) = {7}
    /\ Named(CommandsOf(<<"p">>), OtherLeaf) # {}

\* the name of the command filter that _extract_commands reads from a handler
CommandOf(id) == LastFilter(Handlers[id].event_filters, "command")

\* the command name closes the group path
ClosesPath(path, command_name) ==
    /\ Len(path) > Len(command_name) + 1
    /\ SubSeq(path, Len(path) - Len(command_name), Len(path)) = <<" ">> \o command_name

\* the plugin of the star lists the command of the handler: under its name
\* when no registered group holds the handler, under a group path that ends
\* in its name when one does
ListedFor(star, id) ==
    \E k \in 1..Len(CommandsOf(star.name)) :
        LET name == CommandsOf(star.name)[k].name IN
        IF id \in GroupedHandlerIds(host.registry)
        THEN ClosesPath(name, CommandOf(id)[1].name)
        ELSE name = CommandOf(id)[1].name

\* C24 as stated: after the two passes, every registered handler that
\* carries a command filter and whose module belongs to a plugin of the
\* returned list has its command in the list of that plugin, under its own
\* name or under a group path ending in it, also when the group that holds
\* it sits on a handler that carries a plain command filter besides.
C24_NoCommandLost ==
    Called /\ Listed /\ config = NoConfig =>
        \A n \in 1..Len(host.stars) : \A id \in Registered(host.registry) :
            /\ Entries(host.stars[n].name) # {}
            /\ Handlers[id].handler_module_path = host.stars[n].module_path
            /\ CommandOf(id) # None
            => ListedFor(host.stars[n], id)

\* The handler of the plain command x is registered next to the handler that
\* carries a command y and the group holding x: the plugin lists y, and
\* neither "x" nor "g x".
C24_LeafOfIgnoredGroupLost ==
    /\ Called /\ Listed /\ config = NoConfig
    /\ {6, 8} \subseteq Registered(host.registry)
    /\ \E n \in 1..Len(host.stars) :
          /\ host.stars[n].module_path = "m3"
          /\ Entries(host.stars[n].name) # {}
          /\ Named(CommandsOf(host.stars[n].name), <<"y">>) # {}
          /\ ~ListedFor(host.stars[n], 6)

-----------------------------------------------------------------------------
(* Claims about the command strings *)

Shown == pipe.cls # "none" /\ pipe.shown # None

PipeParts == Split(pipe.raw, "|")

\* C16 as stated: the text shown for a command string is the global wake
\* prefix and the name when the string has no third segment, the name alone
\* when the third segment is empty, and the third segment and the name
\* otherwise, for the parser of either class.
C16_AbsentPrefixInherits ==
    Shown =>
        pipe.shown[1] = (IF Len(PipeParts) < 3 THEN GetWakePrefix(pipe.wake_prefix)
                         ELSE Strip(PipeParts[3])) \o Strip(PipeParts[1])

\* C16, amended: as stated for the parser of PluginCollector; the parser of
\* CustomHelpPlugin takes a missing third segment for an empty one, and the
\* text shown is the name alone.
C16_PrefixShown ==
    Shown =>
        pipe.shown[1] = (IF Len(PipeParts) >= 3 THEN Strip(PipeParts[3])
                         ELSE IF pipe.cls = "PluginCollector"
                              THEN GetWakePrefix(pipe.wake_prefix)
                         ELSE <<>>) \o Strip(PipeParts[1])

\* CustomHelpPlugin shows 'x|!', which has no third segment, as 'x' while the
\* wake prefix is '/'.
C16_Witness ==
    /\ pipe.cls = "CustomHelpPlugin"
    /\ pipe.raw = <<"x", "|", "!">> /\ GetWakePrefix(pipe.wake_prefix) = <<"/">>
    /\ pipe.shown = Some(<<"x">>)


-----------------------------------------------------------------------------
(* Claims about help_command *)

Replied == reply # NoReply

AdminFlag == <<"--admin">>

\* the words of the query other than --admin
OtherWords(query) ==
    LET Other(w) == w # AdminFlag IN SelectSeq(Words(query), Other)

\* the queries made of the same other words, without --admin
Unflagged(query) ==
    {q \in Queries : ~HasAdminFlag(q) /\ Words(q) = OtherWords(query)}

\* what help_command yields for the same message with another query
ReplyTo(query) == HelpReply(host, config, [event EXCEPT !.query = query])

BypassOnlyForAdmins ==
    reply.show_all => IsAdmin(event) /\ (HasAdminFlag(event.query) \/ event.admin_show_all)

\* C18 as stated: help_command collects with skip_blacklist=True only for a
\* sender in the admin list whose query holds --admin or with admin_show_all
\* set; and for a sender who is no admin, a query with --admin yields what
\* the query of its other words without --admin yields.
C18_AdminFlagChangesNothing ==
    Replied =>
        /\ BypassOnlyForAdmins
        /\ ~IsAdmin(event) /\ HasAdminFlag(event.query) =>
              \A q \in Unflagged(event.query) : reply = ReplyTo(q)

\* C18, amended: the first part as stated; and for a sender who is no admin,
\* a query with one --admin yields what the query of its other words yields
\* when that query separates them by single blanks.
C18_AdminFlagOnlyForAdmins ==
    Replied =>
        /\ BypassOnlyForAdmins
        /\ /\ ~IsAdmin(event)
           /\ HasAdminFlag(event.query)
           /\ Len(OtherWords(event.query)) = Len(Words(event.query)) - 1
           => \A q \in Unflagged(event.query) :
                 Strip(q) = Join(Words(q)) => reply = ReplyTo(q)

\* A sender who is no admin asks for 'p --admin' and gets the sub-menu of p,
\* collected without skipping the blacklist.
C18_Witness ==
    /\ Replied
    /\ ~IsAdmin(event)
    /\ event.query = <<"p", " ", "--admin">>
    /\ reply.kind = "sub_menu.html" /\ ~reply.show_all
    /\ reply.plugins[1].name = <<"p">>


-----------------------------------------------------------------------------
(* Claims about the render limiter *)

\* the tasks between `async with _semaphore` entered and left
InsideSemaphore == {t \in DOMAIN pc : pc[t] \in {"blk", "launch", "page"}}

\* C20: at most 3 tasks are inside the `async with _semaphore` block of
\* render_template, however many tasks call it; the tasks inside are those
\* that hold a slot, so a task that returned, raised or was cancelled holds
\* none.
C20_AtMostThreeRenders ==
    /\ Cardinality(InsideSemaphore) <= SemMax
    /\ sem = InsideSemaphore

\* Three tasks are inside, a fourth one waits for a slot, and a call has
\* already raised or been cancelled.
C20_Witness ==
    /\ Cardinality(InsideSemaphore) = SemMax
    /\ \E t \in DOMAIN pc : pc[t] = "sem"
    /\ raised


-----------------------------------------------------------------------------
(* Claims about the shared browser *)

\* the callers that hold a browser _get_browser returned to them
Holding == {t \in DOMAIN got : pc[t] = "done" /\ got[t] # 0}

\* C21: at most one browser is launched and not yet closed, and it is the one
\* _browser refers to; the callers that were returned a browser still live
\* were all returned that one; and a browser is launched only while no other
\* one is live, so a disconnected browser is closed before its replacement.
C21_OneLiveBrowser ==
    /\ Cardinality(live) <= 1
    /\ live \subseteq {ref}
    /\ \A t \in Holding : got[t] \in live => got[t] = ref
    /\ (\E t \in DOMAIN pc : pc[t] \in {"stop", "start", "launch"}) => live = {}

\* The first browser lost its connection and was closed, the second one is
\* live, and two callers hold it.
C21_Witness ==
    /\ launched = 2 /\ live = {2} /\ browser = "connected"
    /\ Cardinality({t \in Holding : got[t] = 2}) >= 2

-----------------------------------------------------------------------------
(* Claims about waiting *)

\* the tasks that hold what the task waits for; empty when it does not wait
WaitsFor(t) ==
    IF t = Term
    THEN CASE pcT = "cleanupwait" -> block
           [] pcT = "await" /\ pc[Sweep] \notin {"none", "done"} -> {Sweep}
           [] OTHER -> {}
    ELSE IF t = Sweep /\ cancelReq THEN {}
    ELSE CASE pc[t] = "lockwait" ->
                {h[3] : h \in {g \in held : g[1] = key[t] /\ g[2] = lk[t]}}
           [] pc[t] = "sem" -> IF Cardinality(sem) >= SemMax THEN sem ELSE {}
           [] pc[t] = "blk" -> block
           [] OTHER -> {}

\* tasks that wait, each for tasks of the set only
WaitCycle(W) == W # {} /\ \A t \in W : WaitsFor(t) # {} /\ WaitsFor(t) \subseteq W

NoCyclicWait == \A W \in SUBSET (Tasks \cup {Term}) : ~WaitCycle(W)

InCall(t) == pc[t] \in {"lockwait"} \cup InRender

====
